---- MODULE Spec2Model ----
(***************************************************************************)
(* History Studio backend (server/index.js): the token-guarded sync and    *)
(* upload store and the AI gateway with model fallback.                    *)
(*                                                                         *)
(* JavaScript values are modelled as tagged tuples so that values of       *)
(* different JavaScript types can be compared: <<"str", s>> a string,      *)
(* <<"iso", t>> the ISO-8601 text of the instant t (milliseconds),         *)
(* <<"null">> null.  An object is the sequence of its own enumerable       *)
(* properties <<key, value>> in insertion order.                           *)
(***************************************************************************)
EXTENDS Integers, Sequences, FiniteSets, TLC

VARIABLES
    syncToken,   \* process.env.SYNC_TOKEN, read once at start-up
    now,         \* the server's wall clock, in milliseconds
    syncFile,    \* server/data/sync.json: [exists, raw]
    uploads,     \* server/uploads: set of [name, bytes]
    inflight,    \* requests received whose handler has not run yet
    last,        \* the most recently completed sync/upload exchange
    lastWrite,   \* the most recent call of writeSyncData
    overlapped,  \* the requests in flight that were in flight during a write
    env,         \* process.env as read at start-up by the AI gateway
    ai,          \* the POST /api/ai request being served: its position and locals
    attempts,    \* the calls of client.chat.completions.create made for it
    aiRes,       \* the response of POST /api/ai
    prompt,      \* the prompt construction of one POST /api/ai request
    call,        \* one application of a client-side parser: [fn, text, done, ret]
    hook,        \* the state of one useUndoRedo hook: [history, index]
    graph,       \* the records and links of the page: [phaseData, entityData, connections, connectionForm]
    creation,    \* the AI-assisted creation of phases and subphases: flags, pending calls, last record
    page         \* the client's sync: status, snapshot, timers, POSTs in flight, the server's document

syncVars == <<syncToken, now, syncFile, uploads, inflight, last, lastWrite, overlapped>>
aiVars == <<env, ai, attempts, aiRes>>
clientVars == <<hook, graph, creation, page>>
pureVars == <<prompt, call, clientVars>>
vars == <<syncVars, aiVars, pureVars>>

(* ------------------------------ bounds --------------------------------- *)
MaxClock == 2
MaxInflight == 2
MaxStored == 2
MaxHistory == 10
MaxTokens == 4
MaxMarked == 1
MaxConnections == 2
MaxCreated == 2
MaxChanges == 3

(* --------------------------- JavaScript values ------------------------- *)
Undefined == "<undefined>"
Null == <<"null">>
Str(s) == <<"str", s>>
\* a string whose characters (or larger pieces) matter: cs is their sequence
Chars(cs) == <<"chars", cs>>
\* Date.prototype.toISOString: one text per millisecond, ordered as the instants
toISOString(t) == <<"iso", t>>

NoBody == [kind |-> "undefined", items |-> <<>>]
Arr(items) == [kind |-> "array", items |-> items]
Obj(props) == [kind |-> "object", items |-> props]

\* the own enumerable properties an object spread copies
OwnProps(v) ==
    LET
        IndexKey == <<"0", "1", "2">>
    IN
    IF v.kind = "array"
    THEN [i \in 1..Len(v.items) |-> <<IndexKey[i], v.items[i]>>]
    ELSE IF v.kind = "object" THEN v.items ELSE <<>>

HasKey(props, k) == \E i \in 1..Len(props) : props[i][1] = k

GetProp(props, k) ==
    IF HasKey(props, k)
    THEN props[CHOOSE i \in 1..Len(props) : props[i][1] = k][2]
    ELSE Undefined

\* { ...props, k: v }: an existing key keeps its place and takes the new value
SetProp(props, k, v) ==
    IF HasKey(props, k)
    THEN [i \in 1..Len(props) |-> IF props[i][1] = k THEN <<k, v>> ELSE props[i]]
    ELSE Append(props, <<k, v>>)

\* JSON.stringify of an object, as a sequence of tokens
JSONstringify(props) ==
    <<<<"{">>>> \o [i \in 1..Len(props) |-> <<"kv", props[i][1], props[i][2]>>]
               \o <<<<"}">>>>

\* JSON.parse succeeds on a complete object text only
JSONvalid(raw) ==
    /\ Len(raw) >= 2
    /\ raw[1] = <<"{">>
    /\ raw[Len(raw)] = <<"}">>
    /\ \A i \in 2..(Len(raw) - 1) : raw[i][1] = "kv"

JSONparse(raw) == [i \in 1..(Len(raw) - 2) |-> <<raw[i + 1][2], raw[i + 1][3]>>]

(* ------------------------------- auth ---------------------------------- *)
Secret == "s3cret"

\* a reader that prefers the x-sync-token header whenever it is present
getAuthToken_eitherHeader(req) ==
    IF req.xSyncToken # Undefined /\ req.xSyncToken # ""
    THEN req.xSyncToken
    ELSE IF Len(req.authorization) >= 1 /\ req.authorization[1] = "Bearer "
         THEN req.authorization[2]
         ELSE req.xSyncToken

getAuthToken(req) ==
    IF Len(req.authorization) >= 1 /\ req.authorization[1] = "Bearer "
    THEN req.authorization[2]
    ELSE req.xSyncToken

Truthy(s) == s # Undefined /\ s # ""

\* a guard that only refuses a token that is present and wrong
requireSyncAuth_lax(req, secret) ==
    IF ~Truthy(secret) THEN TRUE
    ELSE LET token == getAuthToken(req)
         IN  ~Truthy(token) \/ token = secret

\* TRUE when next() is called, FALSE when the 401 is sent
requireSyncAuth(req, secret) ==
    IF ~Truthy(secret) THEN TRUE
    ELSE LET token == getAuthToken(req)
         IN  Truthy(token) /\ token = secret

(* ---------------------------- sync document ---------------------------- *)
NoFile == [exists |-> FALSE, raw |-> <<>>]
File(raw) == [exists |-> TRUE, raw |-> raw]

EmptyDoc == <<<<"updatedAt", Null>>>>

readSyncData(file) ==
    IF ~file.exists THEN EmptyDoc
    ELSE IF JSONvalid(file.raw) THEN JSONparse(file.raw)
    ELSE EmptyDoc

\* a slip in the spread order: { updatedAt: ..., ...payload }
writeSyncData_clientStamp(payload, t) ==
    IF HasKey(OwnProps(payload), "updatedAt")
    THEN OwnProps(payload)
    ELSE Append(OwnProps(payload), <<"updatedAt", toISOString(t)>>)

\* the object writeSyncData builds and returns
writeSyncData(payload, t) == SetProp(OwnProps(payload), "updatedAt", toISOString(t))

\* a slip in the open flag: 'a' (append) instead of 'w'
writeFileSync_append(file, raw, io) ==
    IF io.at = "ok" THEN File(file.raw \o raw)
    ELSE IF io.at = "open" THEN file
    ELSE File(file.raw \o SubSeq(raw, 1, io.n))

\* fs.writeFileSync(path, data): open with O_TRUNC, then write.  io.at = "ok":
\* all of data is written; "open": the open fails and the file is untouched;
\* "write": the write fails after io.n tokens of data reached the file (none, or
\* all but the closing one).
writeFileSync(file, raw, io) ==
    IF io.at = "ok" THEN File(raw)
    ELSE IF io.at = "open" THEN file
    ELSE File(SubSeq(raw, 1, io.n))

IoOutcomes(raw) ==
    {[at |-> "ok", n |-> Len(raw)], [at |-> "open", n |-> 0]}
        \cup {[at |-> "write", n |-> k] : k \in {0, Len(raw) - 1} \cap (0..(Len(raw) - 1))}

(* ------------------------------- uploads ------------------------------- *)
\* a slip that drops the sanitising: String(fileName) || 'upload'
safeBase_raw(cs) ==
    IF Len(cs) = 0 THEN <<"u", "p", "l", "o", "a", "d">> ELSE cs

\* String(fileName).replace(/[^\w.-]/g, '_') || 'upload'
safeBase(cs) ==
    LET
        \* the characters of the model's alphabet that \w matches
        WordChars == {"a", "e", "p", "d", "f", "P", "1", "_"}
    IN
    IF Len(cs) = 0 THEN <<"u", "p", "l", "o", "a", "d">>
    ELSE [i \in 1..Len(cs) |-> IF cs[i] \in WordChars \cup {".", "-"} THEN cs[i] ELSE "_"]

\* String(v) for the values a JSON body can carry as fileName: a string is
\* itself, a one-digit number its digit, an empty array the empty string
String(v) ==
    IF v[1] = "chars" THEN v[2]
    ELSE IF v[1] = "str" THEN <<v[2]>>
    ELSE IF v[1] = "num" THEN <<ToString(v[2])>>
    ELSE <<>>

\* `${Date.now()}-${safeBase}`, as the sequence of its characters (the digits of
\* the timestamp are one piece)
uniqueName(t, cs) == <<ToString(t), "-">> \o safeBase(cs)

RECURSIVE SplitPath(_)
SplitPath(cs) ==
    LET
        \* path.join(dir, name): the joined text is cut at the separators and
        \* normalised, "" and "." segments dropped, ".." removing the segment before it
        PathSeparators == {"/", "\\"}
    IN
    LET seps == {i \in 1..Len(cs) : cs[i] \in PathSeparators}
    IN  IF seps = {} THEN <<cs>>
        ELSE LET i == CHOOSE x \in seps : \A y \in seps : x <= y
             IN  <<SubSeq(cs, 1, i - 1)>> \o SplitPath(SubSeq(cs, i + 1, Len(cs)))

RECURSIVE NormalizeSegments(_, _)
NormalizeSegments(done, rest) ==
    IF rest = <<>> THEN done
    ELSE LET seg == Head(rest)
         IN  IF seg = <<>> \/ seg = <<".">> THEN NormalizeSegments(done, Tail(rest))
             ELSE IF seg = <<".", ".">>
             THEN NormalizeSegments(IF done = <<>> THEN done
                                    ELSE SubSeq(done, 1, Len(done) - 1), Tail(rest))
             ELSE NormalizeSegments(Append(done, seg), Tail(rest))

uploadsDir == << <<"server">>, <<"uploads">> >>
pathJoin(dir, name) == NormalizeSegments(<<>>, dir \o SplitPath(name))

Marker == "base64,"
MarkerAt(ds) == {i \in 1..Len(ds) : ds[i] = Marker}
Min(S) == CHOOSE x \in S : \A y \in S : x <= y

\* data.includes('base64,') ? data.split('base64,')[1] : data
base64Part(ds) ==
    IF MarkerAt(ds) = {} THEN ds
    ELSE LET i == Min(MarkerAt(ds))
             later == {j \in MarkerAt(ds) : j > i}
             stop == IF later = {} THEN Len(ds) + 1 ELSE Min(later)
         IN  SubSeq(ds, i + 1, stop - 1)

IsQuad(d) ==
    LET
        \* the base64 quads of the model and the bytes each decodes to
        Quads == {"QUJD", "REVG"}
    IN
    d \in Quads
\* Buffer.from(text, 'base64'): pieces that are not base64 yield no bytes
BufferFrom(ds) == SelectSeq(ds, IsQuad)

\* the uploads directory after fs.writeFileSync(target, buffer)
StoreUpload(dir, name, bytes, io) ==
    IF io.at = "open" THEN dir
    ELSE {f \in dir : f.name # name}
             \cup {[name |-> name,
                    bytes |-> IF io.at = "ok" THEN bytes ELSE SubSeq(bytes, 1, io.n)]}

(* ------------------------------ requests ------------------------------- *)
V1 == Str("v1")
NoAuth == <<>>
Bearer(tok) == <<"Bearer ", tok>>

Req(route, authorization, xSyncToken, body) ==
    [route |-> route, authorization |-> authorization,
     xSyncToken |-> xSyncToken, body |-> body]

UploadBody(fileName, data) ==
    Obj(<< <<"fileName", fileName>>, <<"fileType", Str("image/png")>>, <<"data", data>> >>)

NoExchange ==
    [req |-> Req("none", NoAuth, Undefined, NoBody), status |-> 0, ran |-> FALSE,
     body |-> <<>>]

NoWrite ==
    [body |-> NoBody, at |-> -1, ok |-> FALSE, before |-> NoFile, raced |-> FALSE]

(* ------------------------------ handlers ------------------------------- *)
Exchange(req, status, ran, body) ==
    [req |-> req, status |-> status, ran |-> ran, body |-> body]

\* res.status(401).json({ error: 'Unauthorized' })
Reject401(req) ==
    /\ last' = Exchange(req, 401, FALSE, <<<<"error", Str("Unauthorized")>>>>)
    /\ overlapped' = overlapped \ {req}
    /\ UNCHANGED <<syncFile, uploads, lastWrite>>

\* app.get('/api/sync')
GetSync(req) ==
    /\ last' = Exchange(req, 200, TRUE, readSyncData(syncFile))
    /\ overlapped' = overlapped \ {req}
    /\ UNCHANGED <<syncFile, uploads, lastWrite>>

\* the guard of app.post('/api/sync'): TRUE when the body is refused
PostSyncRefuses(body) == body.kind = "undefined" \/ body.kind \notin {"array", "object"}

\* app.post('/api/sync')
PostSync(req) ==
    LET
        \* the POST /api/sync requests among rs
        PendingWrites(rs) == {r \in rs : r.route = "POST /api/sync"}
    IN
    IF PostSyncRefuses(req.body)
    THEN /\ last' = Exchange(req, 400, TRUE, <<<<"error", Str("Invalid payload")>>>>)
         /\ overlapped' = overlapped \ {req}
         /\ UNCHANGED <<syncFile, uploads, lastWrite>>
    ELSE LET stored == writeSyncData(req.body, now)
             raw == JSONstringify(stored)
         IN  \E io \in IoOutcomes(raw) :
               /\ syncFile' = writeFileSync(syncFile, raw, io)
               /\ lastWrite' = [body |-> req.body, at |-> now, ok |-> io.at = "ok",
                                before |-> syncFile, raced |-> req \in overlapped]
               /\ overlapped' = PendingWrites(inflight \ {req})
               /\ last' = IF io.at = "ok"
                          THEN Exchange(req, 200, TRUE,
                                        << <<"ok", Str("true")>>,
                                           <<"updatedAt", GetProp(stored, "updatedAt")>> >>)
                          ELSE Exchange(req, 500, TRUE,
                                        <<<<"error", Str("Failed to write sync data")>>>>)
               /\ UNCHANGED uploads

IsString(v) == v # Undefined /\ v[1] \in {"str", "chars"}
Falsy(v) == v = Undefined \/ v = Null \/ v = Chars(<<>>) \/ v = Str("") \/ v = <<"num", 0>>

\* app.post('/api/upload')
PostUpload(req) ==
    LET fileName == GetProp(OwnProps(req.body), "fileName")
        fileType == GetProp(OwnProps(req.body), "fileType")
        data == GetProp(OwnProps(req.body), "data")
    IN  IF Falsy(fileName) \/ Falsy(data) \/ ~IsString(data)
        THEN /\ last' = Exchange(req, 400, TRUE, <<<<"error", Str("Missing file payload")>>>>)
             /\ overlapped' = overlapped \ {req}
             /\ UNCHANGED <<syncFile, uploads, lastWrite>>
        ELSE LET name == uniqueName(now, String(fileName))
                 target == pathJoin(uploadsDir, name)
                 buffer == BufferFrom(base64Part(data[2]))
             IN  \E io \in IoOutcomes(buffer) :
                   /\ uploads' = StoreUpload(uploads, target, buffer, io)
                   /\ last' = IF io.at = "ok"
                              THEN Exchange(req, 200, TRUE,
                                     << <<"url", <<"url", name>>>>,
                                        <<"fileName", Chars(safeBase(String(fileName)))>>,
                                        <<"fileType", IF Falsy(fileType) THEN Str("") ELSE fileType>>,
                                        <<"size", <<"num", Len(buffer)>>>> >>)
                              ELSE Exchange(req, 500, TRUE,
                                     <<<<"error", Str("Failed to store file")>>>>)
                   /\ overlapped' = overlapped \ {req}
                   /\ UNCHANGED <<syncFile, lastWrite>>

Serve(req) ==
    IF ~requireSyncAuth(req, syncToken) THEN Reject401(req)
    ELSE IF req.route = "GET /api/sync" THEN GetSync(req)
    ELSE IF req.route = "POST /api/sync" THEN PostSync(req)
    ELSE PostUpload(req)

NoError == [status |-> -1, ecode |-> Undefined, code |-> Undefined, emessage |-> <<>>, message |-> <<>>]
AiIdle ==
    LET
        NoResult == [kind |-> "none", text |-> <<>>, model |-> Undefined, error |-> NoError]
        NoAiReq == [action |-> Undefined, context |-> Undefined]
    IN
    [pc |-> "idle", req |-> NoAiReq, models |-> <<>>, i |-> 0, modelUsed |-> Undefined,
     lastError |-> NoError, result |-> NoResult]
NoAiRes == [status |-> 0, text |-> <<>>, model |-> Undefined, provider |-> Undefined]

AiAtRest ==
    LET
        \* the AI gateway before any request, under a configuration with no variable set
        NoEnv == [OPENAI_API_KEY |-> Undefined, OPENAI_MODEL |-> Undefined, AI_PROVIDER |-> Undefined]
    IN
    /\ env = NoEnv
    /\ ai = AiIdle
    /\ attempts = <<>>
    /\ aiRes = NoAiRes

\* no prompt under construction, no parser applied
NoPrompt ==
    [req |-> [action |-> Undefined, context |-> <<>>, message |-> Null, chatHistory |-> NoBody],
     state |-> "none", contextBlock |-> <<>>, task |-> "", messages |-> <<>>]
NoCall == [fn |-> "none", text |-> <<>>, done |-> FALSE, ret |-> [kind |-> "null", props |-> <<>>]]
\* the browser-side state before the page is opened
ClientAtRest ==
    /\ hook = [history |-> <<"a">>, index |-> 0]
    /\ graph = [phaseData |-> {}, entityData |-> {}, connections |-> {},
                connectionForm |-> [from |-> <<>>, to |-> <<>>]]
    /\ creation = [isCreatingPhase |-> FALSE, isCreatingSubphase |-> FALSE,
                   phaseCall |-> <<>>, subphaseCall |-> <<>>, made |-> <<>>, now |-> 0]
    /\ page = [syncStatus |-> "idle", local |-> <<>>, isApplyingRemote |-> FALSE, timers |-> {},
               posts |-> {}, sent |-> <<>>, stored |-> <<>>, loaded |-> <<>>]

PureAtRest == prompt = NoPrompt /\ call = NoCall /\ ClientAtRest

(* ------------------------------- actions ------------------------------- *)
Tick ==
    /\ now < MaxClock
    /\ now' = now + 1
    /\ UNCHANGED <<syncToken, syncFile, uploads, inflight, last, lastWrite, overlapped>>
    /\ UNCHANGED <<aiVars, pureVars>>

Receive ==
    LET
        SyncRequests ==
            LET
                SyncBodies ==
                    LET
                        V2 == Str("v2")
                    IN
                    { NoBody,
                      Arr(<<V1>>),
                      Obj(<< <<"phases", V1>>, <<"theme", V1>> >>),
                      Obj(<< <<"updatedAt", toISOString(0)>>, <<"phases", V2>> >>) }
            IN
            {Req("GET /api/sync", Bearer(Secret), Undefined, NoBody)}
                \cup {Req("POST /api/sync", Bearer(Secret), Undefined, b) : b \in SyncBodies}
    IN
    \E r \in SyncRequests :
        /\ Cardinality(inflight) < MaxInflight
        /\ r \notin inflight
        /\ inflight' = inflight \cup {r}
        /\ UNCHANGED <<syncToken, now, syncFile, uploads, last, lastWrite, overlapped>>
        /\ UNCHANGED <<aiVars, pureVars>>

Complete ==
    \E r \in inflight :
        /\ inflight' = inflight \ {r}
        /\ Serve(r)
        /\ UNCHANGED <<syncToken, now>>
        /\ UNCHANGED <<aiVars, pureVars>>

Init ==
    /\ syncToken = Secret
    /\ now = 0
    /\ syncFile = NoFile
    /\ uploads = {}
    /\ inflight = {}
    /\ last = NoExchange
    /\ lastWrite = NoWrite
    /\ overlapped = {}
    /\ AiAtRest
    /\ PureAtRest

Next == Tick \/ Receive \/ Complete

Spec == Init /\ [][Next]_vars

(* ---- the auth guard: every route, every way of presenting a token ----- *)
AuthReceive ==
    LET
        AuthRequests ==
            LET
                AuthCases ==
                    { <<NoAuth, Undefined>>,
                      <<Bearer(Secret), Undefined>>,
                      <<Bearer("wrong"), Undefined>>,
                      <<Bearer("wrong"), Secret>>,
                      <<Bearer(""), Secret>>,
                      <<NoAuth, Secret>>,
                      <<NoAuth, "wrong">>,
                      <<<<"Basic ", Secret>>, Undefined>>,
                      <<<<"bearer ", Secret>>, Undefined>> }
                AuthBodies ==
                    { <<"GET /api/sync", NoBody>>,
                      <<"POST /api/sync", Obj(<< <<"phases", V1>>, <<"theme", V1>> >>)>>,
                      <<"POST /api/upload",
                        UploadBody(Chars(<<"a", "/", "e">>), Chars(<<"data:", Marker, "QUJD">>))>> }
            IN
            {Req(b[1], a[1], a[2], b[2]) : a \in AuthCases, b \in AuthBodies}
    IN
    \E r \in AuthRequests :
        /\ inflight = {}
        /\ inflight' = {r}
        /\ UNCHANGED <<syncToken, now, syncFile, uploads, last, lastWrite, overlapped>>
        /\ UNCHANGED <<aiVars, pureVars>>

InitAuth ==
    /\ syncToken \in {Undefined, "", Secret}
    /\ now = 0
    /\ syncFile = NoFile
    /\ uploads = {}
    /\ inflight = {}
    /\ last = NoExchange
    /\ lastWrite = NoWrite
    /\ overlapped = {}
    /\ AiAtRest
    /\ PureAtRest

NextAuth == AuthReceive \/ Complete

SpecAuth == InitAuth /\ [][NextAuth]_vars

(* ---- uploads: file names, payloads and write outcomes of every kind ---- *)
UploadReceive ==
    LET
        \* the JSON value [], which String() turns into the empty string
        EmptyArray == <<"array">>
        Raw == Chars(<<"QUJD", "REVG">>)
        Png == Chars(<<"data:", Marker, "QUJD">>)
        UploadRequests ==
            LET
                UploadBodies ==
                    {UploadBody(b[1], b[2]) :
                        b \in { <<Chars(<<"a", "/", "e">>), Png>>,
                                <<Chars(<<"a", "/", "e">>), Raw>>,
                                <<Chars(<<"a", ":", "e">>), Png>>,
                                <<Chars(<<".", ".", "/", "e">>), Png>>,
                                <<<<"num", 1>>, Png>>,
                                <<EmptyArray, Raw>>,
                                <<Chars(<<"a", "/", "e">>), Chars(<<"!", "!">>)>>,
                                <<Chars(<<"a", "/", "e">>), <<"num", 1>>>> }}
                        \cup {Obj(<< <<"fileType", Str("image/png")>>, <<"data", Png>> >>)}
            IN
            {Req("POST /api/upload", Bearer(Secret), Undefined, b) : b \in UploadBodies}
    IN
    \E r \in UploadRequests :
        /\ inflight = {}
        /\ Cardinality(uploads) < MaxStored
        /\ inflight' = {r}
        /\ UNCHANGED <<syncToken, now, syncFile, uploads, last, lastWrite, overlapped>>
        /\ UNCHANGED <<aiVars, pureVars>>

NextUpload == Tick \/ UploadReceive \/ Complete

SpecUpload == Init /\ [][NextUpload]_vars

(* ============================ the AI gateway =========================== *)
Err(status, ecode, code, emessage, message) ==
    [status |-> status, ecode |-> ecode, code |-> code,
     emessage |-> emessage, message |-> message]

\* String.prototype.toLowerCase on the pieces messages are made of
Lower(piece) ==
    CASE piece \in {"model", "Model", "MODEL"} -> "model"
      [] piece \in {"not found", "Not Found", "NOT FOUND"} -> "not found"
      [] piece \in {"does not exist", "Does Not Exist"} -> "does not exist"
      [] OTHER -> piece

\* /model.*not found/i: '.' matches every character but a line terminator
MatchesModelNotFound(msg) ==
    \E i \in 1..Len(msg), j \in 1..Len(msg) :
        /\ i < j
        /\ Lower(msg[i]) = "model"
        /\ Lower(msg[j]) = "not found"
        /\ \A k \in (i + 1)..(j - 1) : msg[k] # "\n"

\* /does not exist/i
MatchesDoesNotExist(msg) == \E i \in 1..Len(msg) : Lower(msg[i]) = "does not exist"

\* a || b on strings
OrElse(a, b) == IF Truthy(a) THEN a ELSE b
OrElseMsg(a, b) == IF Len(a) > 0 THEN a ELSE b

\* a classification that also retries on server errors
isModelError_any5xx(error) ==
    \/ error.status = 404
    \/ error.status >= 500
    \/ OrElse(error.ecode, error.code) = "model_not_found"
    \/ MatchesModelNotFound(OrElseMsg(error.emessage, error.message))
    \/ MatchesDoesNotExist(OrElseMsg(error.emessage, error.message))

isModelError(error) ==
    LET status == error.status
        code == OrElse(error.ecode, error.code)
        message == OrElseMsg(error.emessage, error.message)
    IN  \/ status = 404
        \/ code = "model_not_found"
        \/ MatchesModelNotFound(message)
        \/ MatchesDoesNotExist(message)

modelFallbacks == <<"gpt-4o-mini", "gpt-4o", "gpt-4.1-mini">>

\* [...new Set(seq)]: the first occurrence of each element, in order
Dedupe(seq) ==
    LET keep == {i \in 1..Len(seq) : \A j \in 1..(i - 1) : seq[j] # seq[i]}
        Rank(i) == Cardinality({j \in keep : j <= i})
    IN  [n \in 1..Cardinality(keep) |-> seq[CHOOSE i \in keep : Rank(i) = n]]

\* a list built without the Set
buildModelList_noDedupe(e) == SelectSeq(<<e.OPENAI_MODEL>> \o modelFallbacks, Truthy)

buildModelList(e) == Dedupe(SelectSeq(<<e.OPENAI_MODEL>> \o modelFallbacks, Truthy))

client(e) == Truthy(e.OPENAI_API_KEY)

provider(e) ==
    IF Truthy(e.AI_PROVIDER) THEN e.AI_PROVIDER
    ELSE IF client(e) THEN "openai" ELSE "ollama"

ollamaModel == "llama3.1:8b"

\* String.prototype.trim on a sequence of characters
IsSpace(c) == c \in {" ", "\n"}
RECURSIVE TrimLeft(_)
TrimLeft(cs) == IF cs # <<>> /\ IsSpace(Head(cs)) THEN TrimLeft(Tail(cs)) ELSE cs
RECURSIVE TrimRight(_)
TrimRight(cs) ==
    IF cs # <<>> /\ IsSpace(cs[Len(cs)]) THEN TrimRight(SubSeq(cs, 1, Len(cs) - 1)) ELSE cs
Trim(cs) == TrimRight(TrimLeft(cs))

\* completion.choices?.[0]?.message?.content?.trim() ?? ''
TextOf(content) == IF content = Null THEN <<>> ELSE Trim(content[2])

Actions == {"draft", "edit", "overview", "chat", "setup"}

\* a slip that leaves modelUsed at its initial value, models[0]
ModelUsedAfter_first(first, model) == first
\* modelUsed = model: the model reported when the call on `model` succeeds
ModelUsedAfter(first, model) == model

\* a slip that keeps the first model error instead of the latest
ExhaustedError_first(errors) == errors[1]
\* throw lastError: errors are the model errors caught, in order
ExhaustedError(errors) == errors[Len(errors)]

(* ---- inputs ---- *)
Contents == {Null, Chars(<<>>), Chars(<<" ", "H", "i", "\n">>)}

ProviderErrors ==
    LET
        ModelErrors ==
            { Err(404, Undefined, Undefined, <<>>, <<"404 ", "page">>),
              Err(400, "model_not_found", "model_not_found", <<>>, <<"400 ", "bad">>),
              Err(0, Undefined, "model_not_found", <<>>, <<"nope">>),
              Err(400, Undefined, Undefined, <<"The ", "MODEL", " x ", "Not Found">>, <<"400">>),
              Err(403, Undefined, Undefined, <<>>, <<"it ", "Does Not Exist">>) }
        OtherErrors ==
            { Err(500, Undefined, Undefined, <<>>, <<"model", "\n", "not found">>),
              Err(401, "invalid_api_key", "invalid_api_key", <<>>, <<"401 ", "key">>),
              Err(429, "rate_limit", "rate_limit", <<>>, <<"429">>),
              Err(0, Undefined, "ECONNRESET", <<>>, <<"not found", " ", "model">>) }
    IN
    ModelErrors \cup OtherErrors

OllamaFailed == Err(0, Undefined, Undefined, <<>>, <<"Ollama request failed">>)

(* ---- POST /api/ai ---- *)
Ok200(text, model) ==
    [status |-> 200, text |-> text, model |-> model, provider |-> provider(env)]

\* the catch block of app.post('/api/ai')
Caught ==
    [status |-> IF provider(env) = "ollama" THEN 503 ELSE 500,
     text |-> <<>>, model |-> Undefined, provider |-> Undefined]

Returned(text, model) == [kind |-> "return", text |-> text, model |-> model, error |-> NoError]
Thrown(error) == [kind |-> "throw", text |-> <<>>, model |-> Undefined, error |-> error]

\* a validation without the closed set of actions
aiRefuses_anyAction(req) == ~Truthy(req.action) \/ ~Truthy(req.context)

\* the two checks of app.post('/api/ai'): TRUE when the request is answered 400
aiRefuses(req) ==
    \/ ~Truthy(req.action) \/ ~Truthy(req.context)
    \/ req.action \notin Actions

\* a request arrives: validation, then the dispatch up to its first await
AiRequest ==
    LET
        AiRequests ==
            [action : {Undefined, "", "draft", "setup", "summarize"},
             context : {Undefined, "", "ctx"}]
        Bad400 == [status |-> 400, text |-> <<>>, model |-> Undefined, provider |-> Undefined]
        MissingKey == Err(0, Undefined, Undefined, <<>>, <<"Missing OPENAI_API_KEY">>)
    IN
    \E req \in AiRequests :
        /\ ai.pc = "idle"
        /\ attempts' = <<>>
        /\ IF aiRefuses(req)
           THEN /\ ai' = [AiIdle EXCEPT !.pc = "done", !.req = req]
                /\ aiRes' = Bad400
           ELSE IF provider(env) = "openai"
           THEN IF ~client(env)
                THEN /\ ai' = [AiIdle EXCEPT !.pc = "done", !.req = req,
                                             !.result = Thrown(MissingKey)]
                     /\ aiRes' = Caught
                ELSE /\ ai' = [AiIdle EXCEPT !.pc = "create", !.req = req,
                                             !.models = buildModelList(env), !.i = 1,
                                             !.modelUsed = buildModelList(env)[1]]
                     /\ aiRes' = NoAiRes
           ELSE /\ ai' = [AiIdle EXCEPT !.pc = "fetch", !.req = req]
                /\ aiRes' = NoAiRes
        /\ UNCHANGED env
        /\ UNCHANGED <<syncVars, pureVars>>

Attempt(model, ok, content, error) ==
    [model |-> model, ok |-> ok, content |-> content, error |-> error]

\* client.chat.completions.create resolves
CreateResolves ==
    \E content \in Contents :
        /\ ai.pc = "create"
        /\ attempts' = Append(attempts, Attempt(ai.models[ai.i], TRUE, content, NoError))
        /\ LET used == ModelUsedAfter(ai.modelUsed, ai.models[ai.i])
           IN  /\ ai' = [ai EXCEPT !.pc = "done", !.modelUsed = used,
                                   !.result = Returned(TextOf(content), used)]
               /\ aiRes' = Ok200(TextOf(content), used)
        /\ UNCHANGED env
        /\ UNCHANGED <<syncVars, pureVars>>

\* client.chat.completions.create rejects
CreateRejects ==
    \E error \in ProviderErrors :
        /\ ai.pc = "create"
        /\ attempts' = Append(attempts, Attempt(ai.models[ai.i], FALSE, Null, error))
        /\ IF isModelError(error)
           THEN IF ai.i < Len(ai.models)
                THEN /\ ai' = [ai EXCEPT !.lastError = error, !.i = ai.i + 1]
                     /\ aiRes' = aiRes
                ELSE /\ ai' = [ai EXCEPT !.pc = "done", !.lastError = error,
                                         !.result = Thrown(ExhaustedError(
                                             [k \in 1..Len(attempts') |-> attempts'[k].error]))]
                     /\ aiRes' = Caught
           ELSE /\ ai' = [ai EXCEPT !.pc = "done", !.result = Thrown(error)]
                /\ aiRes' = Caught
        /\ UNCHANGED env
        /\ UNCHANGED <<syncVars, pureVars>>

\* the local daemon answers with response.ok
OllamaResolves ==
    \E content \in Contents :
        /\ ai.pc = "fetch"
        /\ ai' = [ai EXCEPT !.pc = "done", !.result = Returned(TextOf(content), ollamaModel)]
        /\ aiRes' = Ok200(TextOf(content), ollamaModel)
        /\ UNCHANGED <<env, attempts>>
        /\ UNCHANGED <<syncVars, pureVars>>

\* fetch rejects, or the daemon answers with a non-success status
OllamaFails ==
    /\ ai.pc = "fetch"
    /\ ai' = [ai EXCEPT !.pc = "done", !.result = Thrown(OllamaFailed)]
    /\ aiRes' = Caught
    /\ UNCHANGED <<env, attempts>>
    /\ UNCHANGED <<syncVars, pureVars>>

\* the response has been sent; the gateway is ready for the next request
AiDone ==
    /\ ai.pc = "done"
    /\ ai' = AiIdle
    /\ attempts' = <<>>
    /\ aiRes' = NoAiRes
    /\ UNCHANGED env
    /\ UNCHANGED <<syncVars, pureVars>>

InitAi ==
    LET
        Envs ==
            [OPENAI_API_KEY : {Undefined, "sk-key"},
             OPENAI_MODEL : {Undefined, "", "my-model", "gpt-4o"},
             AI_PROVIDER : {Undefined, "openai", "ollama", "local"}]
    IN
    /\ syncToken = Undefined
    /\ now = 0
    /\ syncFile = NoFile
    /\ uploads = {}
    /\ inflight = {}
    /\ last = NoExchange
    /\ lastWrite = NoWrite
    /\ overlapped = {}
    /\ env \in Envs
    /\ ai = AiIdle
    /\ attempts = <<>>
    /\ aiRes = NoAiRes
    /\ PureAtRest

NextAi ==
    AiRequest \/ CreateResolves \/ CreateRejects \/ OllamaResolves \/ OllamaFails \/ AiDone

SpecAi == InitAi /\ [][NextAi]_vars

(* ---------------- POST /api/ai: the prompt construction ---------------- *)
\* texts are sequences of pieces; array.join(sep) of a sequence of texts
RECURSIVE Join(_, _)
Join(parts, sep) ==
    IF parts = <<>> THEN <<>>
    ELSE IF Len(parts) = 1 THEN parts[1]
    ELSE parts[1] \o sep \o Join(Tail(parts), sep)

\* `${label}${v ?? fallback}`
Labelled(label, v, fallback) ==
    <<label>> \o (IF v = Undefined \/ v = Null THEN <<fallback>> ELSE String(v))
\* a test for absence instead of truthiness: v != null ? ... : null
Optional_ifPresent(label, v) ==
    IF v = Undefined \/ v = Null THEN <<>> ELSE <<label>> \o String(v)

\* v ? `${label}${v}` : null   (null is the empty text here: no entry is empty)
Optional(label, v) == IF Falsy(v) THEN <<>> ELSE <<label>> \o String(v)

buildContextBlock(context) ==
    Join(SelectSeq(<< Labelled("Kind: ", GetProp(context, "kind"), "unknown"),
                      Labelled("Scope: ", GetProp(context, "scope"), "summary"),
                      Labelled("Title: ", GetProp(context, "title"), "Untitled"),
                      Labelled("Range: ", GetProp(context, "range"), "n/a"),
                      Optional("Focus: ", GetProp(context, "focus")),
                      Optional("Summary: ", GetProp(context, "summary")),
                      Optional("Prompt: ", GetProp(context, "prompt")),
                      Optional("Draft: ", GetProp(context, "draft")),
                      Optional("Reading text: ", GetProp(context, "readingText")) >>,
                   LAMBDA entry : entry # <<>>), <<"\n">>)

\* a target that ignores the kind
SetupTarget_phase(kind) == "phase"
\* context.kind === 'entity' ? 'entry' : 'phase'
SetupTarget(kind) == IF Chars(<<"entity">>) = kind THEN "entry" ELSE "phase"

buildTask(action, context) ==
    LET
        \* the instruction for a setup of `target`
        SetupTask(target) ==
            "Create a minimal " \o target \o " setup from the context. Return JSON only with keys: title, range, summary, subphaseTitle, subphaseRange, subphasePrompt, themes, questions. Write the summary as 2-4 short paragraphs. Keep prompts concise but informative. Do not include any extra text or code fences."
    IN
    LET scope == GetProp(context, "scope")
        kind == GetProp(context, "kind")
    IN  IF action = "draft"
        THEN IF Chars(<<"summary">>) = scope
             THEN IF Chars(<<"phase">>) = kind
                  THEN "Write a long-form narrative (4-6 paragraphs) based on the context."
                  ELSE "Write a concise 3-5 sentence summary based on the context."
             ELSE "Write a clear working draft (3-6 paragraphs) based on the prompt and context."
        ELSE IF action = "edit"
        THEN IF Chars(<<"summary">>) = scope
             THEN IF Chars(<<"phase">>) = kind
                  THEN "Revise the narrative for clarity, structure, and flow. Keep it 4-6 paragraphs."
                  ELSE "Revise the summary for clarity and precision in 3-5 sentences."
             ELSE "Revise the draft for clarity, structure, and evidence alignment. Keep the length similar."
        ELSE IF action = "overview"
        THEN "Provide a concise high-level overview in 4-6 sentences. Avoid citations."
        ELSE IF action = "chat"
        THEN "Answer the user question and suggest concrete edits or next steps."
        ELSE IF action = "setup"
        THEN IF Chars(<<"subphase">>) = scope
             THEN "Create a minimal subphase setup from the context. Return JSON only with keys: title, range, prompt. Keep values concise and specific. Do not include any extra text or code fences."
             ELSE SetupTask(SetupTarget(kind))
        ELSE "Provide a helpful response based on the context."

\* one entry of chatHistory, or a message the handler builds
Msg(role, content) == [kind |-> "object", role |-> role, content |-> content]
\* entry && (entry.role === 'user' || entry.role === 'assistant') &&
\* typeof entry.content === 'string'
ValidEntry(entry) ==
    /\ entry.kind = "object"
    /\ entry.role \in {"user", "assistant"}
    /\ IsString(entry.content)

\* a slip that keeps the first entries: array.slice(0, n)
ChatTurns_first(chatHistory) ==
    IF chatHistory.kind = "array"
    THEN SubSeq(SelectSeq(chatHistory.items, ValidEntry), 1,
                IF Len(SelectSeq(chatHistory.items, ValidEntry)) <= 8
                THEN Len(SelectSeq(chatHistory.items, ValidEntry)) ELSE 8)
    ELSE <<>>
\* the `history` of the chat branch
ChatTurns(chatHistory) ==
    LET
        \* array.slice(-n)
        SliceLast(seq, n) == IF Len(seq) <= n THEN seq ELSE SubSeq(seq, Len(seq) - n + 1, Len(seq))
    IN
    IF chatHistory.kind = "array"
    THEN SliceLast(SelectSeq(chatHistory.items, ValidEntry), 8)
    ELSE <<>>

\* the `messages` handed to the provider
buildMessages(req) ==
    LET
        systemPrompt ==
            "You are a history research assistant in a learning app. Use only the provided context; do not invent citations or sources. If details are missing, ask one clarifying question. Return plain text only."
    IN
    LET contextBlock == buildContextBlock(req.context)
        task == buildTask(req.action, req.context)
        head == << Msg("system", Chars(<<systemPrompt>>)),
                   Msg("system", Chars(<<"Context:\n">> \o contextBlock)) >>
    IN  IF req.action = "chat"
        THEN head \o <<Msg("system", Chars(<<task>>))>> \o ChatTurns(req.chatHistory)
                 \o <<Msg("user", IF Falsy(req.message)
                                  THEN Chars(<<"Continue the conversation with useful guidance.">>)
                                  ELSE req.message)>>
        ELSE LET guidance == IF IsString(req.message) /\ Trim(String(req.message)) # <<>>
                             THEN <<"User direction: ">> \o Trim(String(req.message))
                             ELSE <<>>
             IN  Append(head, Msg("user", Chars(Join(SelectSeq(<< <<task>>, guidance, contextBlock >>,
                                                             LAMBDA part : part # <<>>),
                                                   <<"\n\n">>))))

(* ---- inputs ---- *)
Absent == <<"absent">>
\* the object with the properties ps[i] = <<key, value>> whose value is present
ObjectOf(ps) == SelectSeq(ps, LAMBDA p : p[2] # Absent)

Line == Chars(<<"x">>)
TwoLines == Chars(<<"x", "\n", "y">>)

History(ks) ==
    LET
        \* the i-th entry of a history: a user turn, an assistant turn, or an entry the
        \* filter is to drop (a system turn, a turn without string content, null)
        Entry(k, i) ==
            LET
                NullEntry == [kind |-> "null", role |-> Undefined, content |-> Null]
            IN
            IF k = "user" THEN Msg("user", Chars(<<ToString(i)>>))
            ELSE IF k = "assistant" THEN Msg("assistant", Chars(<<ToString(i)>>))
            ELSE IF i % 3 = 0 THEN Msg("system", Chars(<<ToString(i)>>))
            ELSE IF i % 3 = 1 THEN Msg("user", <<"num", i>>)
            ELSE NullEntry
    IN
    Arr([i \in 1..Len(ks) |-> Entry(ks[i], i)])

\* a request received by POST /api/ai, its prompt not built yet
Received(action, context, message, chatHistory) ==
    [NoPrompt EXCEPT !.req = [action |-> action, context |-> context, message |-> message,
                              chatHistory |-> chatHistory],
                     !.state = "received"]

(* ---- actions ---- *)
SyncAtRest ==
    /\ syncToken = Secret
    /\ now = 0
    /\ syncFile = NoFile
    /\ uploads = {}
    /\ inflight = {}
    /\ last = NoExchange
    /\ lastWrite = NoWrite
    /\ overlapped = {}

\* app.post('/api/ai') from the validation to the messages it dispatches
BuildPrompt ==
    /\ prompt.state = "received"
    /\ prompt' = IF aiRefuses(prompt.req)
                 THEN [prompt EXCEPT !.state = "refused"]
                 ELSE [prompt EXCEPT !.state = "built",
                                     !.contextBlock = buildContextBlock(prompt.req.context),
                                     !.task = buildTask(prompt.req.action, prompt.req.context),
                                     !.messages = buildMessages(prompt.req)]
    /\ UNCHANGED <<syncVars, aiVars, call, clientVars>>

InitPrompt ==
    LET
        \* a context of scope sc and kind k, named or not
        TaskContext(k, sc) == ObjectOf(<< <<"kind", k>>, <<"scope", sc>>, <<"title", Line>> >>)
        \* a context with each required field present or absent (r) and each optional
        \* field absent, empty, of one line or of two (o)
        BlockContext(r, o) ==
            ObjectOf(<< <<"kind", r[1]>>, <<"scope", r[2]>>, <<"title", r[3]>>, <<"range", r[4]>>,
                        <<"focus", o[1]>>, <<"summary", o[2]>>, <<"prompt", o[3]>>,
                        <<"draft", o[4]>>, <<"readingText", o[5]>> >>)
    IN
    /\ SyncAtRest
    /\ AiAtRest
    /\ ClientAtRest
    /\ call = NoCall
    /\ \/ \E r \in [1..4 -> {Absent, Line}],
             o \in [1..5 -> {Absent, Chars(<<>>), Line, TwoLines}] :
               prompt = Received("draft", BlockContext(r, o), Null, NoBody)
       \/ \E a \in Actions \cup {"summarize", ""},
             k \in {Absent, Chars(<<"phase">>), Chars(<<"entity">>), Chars(<<"place">>)},
             sc \in {Absent, Chars(<<"summary">>), Chars(<<"subphase">>), Chars(<<"other">>)},
             m \in {Null, Chars(<<" ", "h", "i", " ">>), Chars(<<" ">>)} :
               prompt = Received(a, TaskContext(k, sc), m, NoBody)
       \/ \E n \in 0..MaxHistory :
             \E ks \in [1..n -> {"user", "assistant", "invalid"}] :
               prompt = Received("chat", TaskContext(Absent, Absent), Chars(<<"h", "i">>), History(ks))
       \/ \E m \in {Null, Chars(<<>>), <<"num", 1>>},
             h \in {NoBody, Obj(<<>>), History(<<"user">>)} :
               prompt = Received("chat", TaskContext(Absent, Absent), m, h)

NextPrompt == BuildPrompt

SpecPrompt == InitPrompt /\ [][NextPrompt]_vars

(* ------------- client: the parsers of the AI setup answers ------------- *)
NullResult == [kind |-> "null", props |-> <<>>]
ObjectResult(props) == [kind |-> "object", props |-> props]

\* text.indexOf(tok) and text.lastIndexOf(tok), counted from 1; 0 when not found
indexOf(text, tok) ==
    IF \E i \in 1..Len(text) : text[i] = tok
    THEN CHOOSE i \in 1..Len(text) : text[i] = tok /\ \A j \in 1..(i - 1) : text[j] # tok
    ELSE 0
lastIndexOf(text, tok) ==
    IF \E i \in 1..Len(text) : text[i] = tok
    THEN CHOOSE i \in 1..Len(text) : text[i] = tok /\ \A j \in (i + 1)..Len(text) : text[j] # tok
    ELSE 0

extractJsonObject(text) ==
    LET
        \* a text is a sequence of tokens: <<"{">>, <<"}">>, a member <<"kv", key, value>>
        \* of a JSON object, or <<"txt">> for anything else; a JSON array is
        \* <<"list", items>>
        Thrown_SyntaxError == [kind |-> "throw", props |-> <<>>]
    IN
    LET start == indexOf(text, <<"{">>)
        end == lastIndexOf(text, <<"}">>)
        slice == SubSeq(text, start, end)
    IN  IF start < 1 \/ end < 1 \/ end <= start THEN NullResult
        ELSE LET parsed == IF JSONvalid(slice) THEN ObjectResult(JSONparse(slice))
                           ELSE Thrown_SyntaxError
             IN  IF parsed.kind = "throw" THEN NullResult ELSE parsed

\* value[key]: of the members with that key the last one
Member(value, key) ==
    IF HasKey(value, key)
    THEN value[CHOOSE i \in 1..Len(value) :
                   value[i][1] = key /\ \A j \in (i + 1)..Len(value) : value[j][1] # key][2]
    ELSE Undefined

pickString(value, key) ==
    LET v == Member(value, key)
    IN  IF IsString(v) THEN Chars(Trim(v[2])) ELSE Absent

\* a list that keeps the entries that are empty after trimming
pickList_keepEmpty(value, key) ==
    LET v == Member(value, key)
    IN  IF v # Undefined /\ v[1] = "list"
        THEN <<"list", [i \in 1..Len(SelectSeq(v[2], IsString)) |->
                           Chars(Trim(SelectSeq(v[2], IsString)[i][2]))]>>
        ELSE Absent

pickList(value, key) ==
    LET v == Member(value, key)
    IN  IF v # Undefined /\ v[1] = "list"
        THEN LET strings == SelectSeq(v[2], IsString)
                 trimmed == [i \in 1..Len(strings) |-> Chars(Trim(strings[i][2]))]
             IN  <<"list", SelectSeq(trimmed, LAMBDA s : s # Chars(<<>>))>>
        ELSE Absent

parsePhaseSetup(text) ==
    IF text = <<>> THEN NullResult
    ELSE LET parsed == extractJsonObject(text)
         IN  IF parsed.kind # "object" THEN parsed
             ELSE ObjectResult(ObjectOf(
                      << <<"title", pickString(parsed.props, "title")>>,
                         <<"range", pickString(parsed.props, "range")>>,
                         <<"summary", pickString(parsed.props, "summary")>>,
                         <<"subphaseTitle", pickString(parsed.props, "subphaseTitle")>>,
                         <<"subphaseRange", pickString(parsed.props, "subphaseRange")>>,
                         <<"subphasePrompt", pickString(parsed.props, "subphasePrompt")>>,
                         <<"themes", pickList(parsed.props, "themes")>>,
                         <<"questions", pickList(parsed.props, "questions")>> >>))

parseSubphaseSetup(text) ==
    IF text = <<>> THEN NullResult
    ELSE LET parsed == extractJsonObject(text)
         IN  IF parsed.kind # "object" THEN parsed
             ELSE ObjectResult(ObjectOf(
                      << <<"title", pickString(parsed.props, "title")>>,
                         <<"range", pickString(parsed.props, "range")>>,
                         <<"prompt", pickString(parsed.props, "prompt")>> >>))

(* ---- actions ---- *)
ParsePhase ==
    /\ call.fn = "parsePhaseSetup" /\ ~call.done
    /\ call' = [call EXCEPT !.done = TRUE, !.ret = parsePhaseSetup(call.text)]
    /\ UNCHANGED <<syncVars, aiVars, prompt, clientVars>>

ParseSubphase ==
    /\ call.fn = "parseSubphaseSetup" /\ ~call.done
    /\ call' = [call EXCEPT !.done = TRUE, !.ret = parseSubphaseSetup(call.text)]
    /\ UNCHANGED <<syncVars, aiVars, prompt, clientVars>>

InitParse ==
    LET
        Tokens ==
            { <<"{">>, <<"}">>, <<"txt">>,
              <<"kv", "title", Chars(<<" ", "T", " ">>)>>,
              <<"kv", "title", <<"num", 5>>>>,
              <<"kv", "themes", <<"list", << Chars(<<" ", "a">>), Chars(<<" ">>), <<"num", 7>>,
                                             Chars(<<"b">>) >> >>>>,
              <<"kv", "questions", Chars(<<"q">>)>>,
              <<"kv", "prompt", Chars(<<"\n", "P">>)>> }
    IN
    /\ SyncAtRest
    /\ AiAtRest
    /\ ClientAtRest
    /\ prompt = NoPrompt
    /\ \E fn \in {"parsePhaseSetup", "parseSubphaseSetup"}, n \in 0..MaxTokens :
          \E text \in [1..n -> Tokens] :
              call = [fn |-> fn, text |-> text, done |-> FALSE, ret |-> NullResult]

NextParse == ParsePhase \/ ParseSubphase

SpecParse == InitParse /\ [][NextParse]_vars

(* ====================== useUndoRedo (part_000 13-64) =================== *)
\* the entries a history may hold before its oldest entry is dropped
HistoryLimit == 50

\* what the hook returns to its component on a render
Rendered ==
    [state |-> hook.history[hook.index + 1],
     canUndo |-> hook.index > 0,
     canRedo |-> hook.index < Len(hook.history) - 1]

\* an append that keeps the entries after index: history.slice() in place of
\* history.slice(0, index + 1)
setState_keepFuture(value) ==
    LET newHistory == hook.history \o <<value>>
        kept == IF Len(newHistory) > HistoryLimit THEN Tail(newHistory) ELSE newHistory
    IN  /\ hook' = [history |-> kept, index |-> Len(kept) - 1]
        /\ UNCHANGED <<syncVars, aiVars, prompt, call, graph, creation, page>>

setState(value) ==
    LET newHistory == SubSeq(hook.history, 1, hook.index + 1) \o <<value>>
        kept == IF Len(newHistory) > HistoryLimit THEN Tail(newHistory) ELSE newHistory
    IN  /\ hook' = [history |-> kept, index |-> Len(kept) - 1]
        /\ UNCHANGED <<syncVars, aiVars, prompt, call, graph, creation, page>>

undo ==
    /\ hook' = IF hook.index > 0 THEN [hook EXCEPT !.index = hook.index - 1] ELSE hook
    /\ UNCHANGED <<syncVars, aiVars, prompt, call, graph, creation, page>>

redo ==
    /\ hook' = IF hook.index < Len(hook.history) - 1
               THEN [hook EXCEPT !.index = hook.index + 1]
               ELSE hook
    /\ UNCHANGED <<syncVars, aiVars, prompt, call, graph, creation, page>>

reset(initialState) ==
    /\ hook' = [history |-> <<initialState>>, index |-> 0]
    /\ UNCHANGED <<syncVars, aiVars, prompt, call, graph, creation, page>>

InitUndo ==
    /\ SyncAtRest
    /\ AiAtRest
    /\ prompt = NoPrompt
    /\ call = NoCall
    /\ graph = [phaseData |-> {}, entityData |-> {}, connections |-> {},
                connectionForm |-> [from |-> <<>>, to |-> <<>>]]
    /\ creation = [isCreatingPhase |-> FALSE, isCreatingSubphase |-> FALSE,
                   phaseCall |-> <<>>, subphaseCall |-> <<>>, made |-> <<>>, now |-> 0]
    /\ page = [syncStatus |-> "idle", local |-> <<>>, isApplyingRemote |-> FALSE, timers |-> {},
               posts |-> {}, sent |-> <<>>, stored |-> <<>>, loaded |-> <<>>]
    /\ \E initialState \in {"a", "b"} : hook = [history |-> <<initialState>>, index |-> 0]

\* the component's calls: the marked value "b" is set at most MaxMarked times
\* into one history, the plain value "a" freely
NextUndo ==
    \/ \E value \in {"a", "b"} :
           /\ value = "b" =>
                  Cardinality({i \in 1..Len(hook.history) : hook.history[i] = "b"}) < MaxMarked
           /\ setState(value)
    \/ undo
    \/ redo
    \/ \E initialState \in {"a", "b"} : reset(initialState)

SpecUndo == InitUndo /\ [][NextUndo]_vars

(* ================ connections (App.tsx 1279-1318, 2100-2752, 3041-3091) ============ *)
\* A node id is the sequence of the segments that buildConnectionNodeId joins
\* with ':' and parseConnectionNodeId splits again: <<"phase", id>>,
\* <<"phase-sub", id, sub>>, <<"entity", section, id>>,
\* <<"entity-sub", section, id, sub>>; the empty id is the unset form field.
\* A record is [id, subphases]; a connection is [from, to, relation].

\* the node ids of a phase (kind "phase") or of an entry (kind "entity") and of
\* its subphases
NodeIds(kind, record) ==
    IF kind = "phase"
    THEN {<<"phase", record.id>>} \cup {<<"phase-sub", record.id, sub>> : sub \in record.subphases}
    ELSE {<<"entity", "people", record.id>>}
             \cup {<<"entity-sub", "people", record.id, sub>> : sub \in record.subphases}

\* connectionOptionGroups: the values the two selects of the form offer
connectionOptionGroups ==
    UNION ({NodeIds("phase", phase) : phase \in graph.phaseData}
               \cup {NodeIds("entity", entity) : entity \in graph.entityData})

\* the select's onChange: setConnectionForm(prev => ({ ...prev, [field]: value }))
setConnectionForm(field, value) ==
    /\ graph' = [graph EXCEPT !.connectionForm[field] = value]
    /\ UNCHANGED <<syncVars, aiVars, prompt, call, hook, creation, page>>

removeConnectionsForNodes(nodeIds) ==
    {connection \in graph.connections :
        connection.from \notin nodeIds /\ connection.to \notin nodeIds}

handleAddConnection ==
    LET from == graph.connectionForm.from
        to == graph.connectionForm.to
        exists == \E connection \in graph.connections :
                      /\ connection.relation = "relates"
                      /\ \/ connection.from = from /\ connection.to = to
                         \/ connection.from = to /\ connection.to = from
    IN  /\ graph' = IF from = <<>> \/ to = <<>> \/ from = to \/ exists
                    THEN graph
                    ELSE [graph EXCEPT
                             !.connections = @ \cup {[from |-> from, to |-> to,
                                                      relation |-> "relates"]},
                             !.connectionForm = [from |-> <<>>, to |-> <<>>]]
        /\ UNCHANGED <<syncVars, aiVars, prompt, call, hook, creation, page>>

handleDeleteConnection(connection) ==
    /\ graph' = [graph EXCEPT !.connections = @ \ {connection}]
    /\ UNCHANGED <<syncVars, aiVars, prompt, call, hook, creation, page>>

handleDeletePhase(target) ==
    /\ graph' = [graph EXCEPT
                    !.connections = removeConnectionsForNodes(NodeIds("phase", target)),
                    !.phaseData = @ \ {target}]
    /\ UNCHANGED <<syncVars, aiVars, prompt, call, hook, creation, page>>

handleDeleteEntity(target) ==
    /\ graph' = [graph EXCEPT
                    !.connections = removeConnectionsForNodes(NodeIds("entity", target)),
                    !.entityData = @ \ {target}]
    /\ UNCHANGED <<syncVars, aiVars, prompt, call, hook, creation, page>>

handleDeleteSubphase(selectedPhase, subphaseId) ==
    /\ graph' = [graph EXCEPT
                    !.connections =
                        removeConnectionsForNodes({<<"phase-sub", selectedPhase.id, subphaseId>>}),
                    !.phaseData = (@ \ {selectedPhase})
                        \cup {[selectedPhase EXCEPT !.subphases = @ \ {subphaseId}]}]
    /\ UNCHANGED <<syncVars, aiVars, prompt, call, hook, creation, page>>

handleDeleteEntitySubphase(selectedEntity, subphaseId) ==
    /\ graph' = [graph EXCEPT
                    !.connections =
                        removeConnectionsForNodes(
                            {<<"entity-sub", "people", selectedEntity.id, subphaseId>>}),
                    !.entityData = (@ \ {selectedEntity})
                        \cup {[selectedEntity EXCEPT !.subphases = @ \ {subphaseId}]}]
    /\ UNCHANGED <<syncVars, aiVars, prompt, call, hook, creation, page>>

\* two phases, one of them with a subphase, and one entry with a subphase; no
\* connection yet and an empty form
InitGraph ==
    /\ SyncAtRest
    /\ AiAtRest
    /\ prompt = NoPrompt
    /\ call = NoCall
    /\ hook = [history |-> <<"a">>, index |-> 0]
    /\ graph = [phaseData |-> {[id |-> "p1", subphases |-> {"s1"}],
                               [id |-> "p2", subphases |-> {}]},
                entityData |-> {[id |-> "e1", subphases |-> {"s1"}]},
                connections |-> {},
                connectionForm |-> [from |-> <<>>, to |-> <<>>]]
    /\ creation = [isCreatingPhase |-> FALSE, isCreatingSubphase |-> FALSE,
                   phaseCall |-> <<>>, subphaseCall |-> <<>>, made |-> <<>>, now |-> 0]
    /\ page = [syncStatus |-> "idle", local |-> <<>>, isApplyingRemote |-> FALSE, timers |-> {},
               posts |-> {}, sent |-> <<>>, stored |-> <<>>, loaded |-> <<>>]

\* the user's actions: the selects offer the current options, the delete
\* buttons exist for the current records and connections
NextGraph ==
    \/ \E field \in {"from", "to"}, value \in connectionOptionGroups \cup {<<>>} :
           setConnectionForm(field, value)
    \/ Cardinality(graph.connections) < MaxConnections /\ handleAddConnection
    \/ \E connection \in graph.connections : handleDeleteConnection(connection)
    \/ \E target \in graph.phaseData : handleDeletePhase(target)
    \/ \E target \in graph.entityData : handleDeleteEntity(target)
    \/ \E selectedPhase \in graph.phaseData :
           \E subphaseId \in selectedPhase.subphases :
               handleDeleteSubphase(selectedPhase, subphaseId)
    \/ \E selectedEntity \in graph.entityData :
           \E subphaseId \in selectedEntity.subphases :
               handleDeleteEntitySubphase(selectedEntity, subphaseId)

SpecGraph == InitGraph /\ [][NextGraph]_vars

(* ========= creation with AI (App.tsx 2113-2165, 2196-2232, 2605-2683) ========= *)
\* requestAi: the texts a request may come to. It settles as a network failure
\* (fetch rejects), an HTTP error (!response.ok), a body without text (or one
\* that response.json() or trim() throws on), each giving '', or as a body with
\* a text, of which trim() removes the leading and trailing <<"ws">> tokens
requestAi ==
    LET Object(members) == <<<<"{">>>> \o members \o <<<<"}">>>>
        Outcomes ==
            { [kind |-> "network failure", text |-> <<>>],
              [kind |-> "http error", text |-> <<>>],
              [kind |-> "no text", text |-> <<>>] }
            \cup {[kind |-> "ok", text |-> text] : text \in
                    { <<>>,
                      <<<<"ws">>>>,
                      <<<<"txt">>>>,
                      <<<<"txt">>, <<"}">>, <<"{">>>>,
                      <<<<"{">>, <<"txt">>, <<"}">>>>,
                      Object(<<>>),
                      Object(<< <<"kv", "title", <<"num", 5>>>>,
                                <<"kv", "range", <<"list", <<Chars(<<"a">>)>>>>>>,
                                <<"kv", "prompt", Null>>,
                                <<"kv", "subphasePrompt", <<"num", 0>>>> >>),
                      Object(<< <<"kv", "title", Chars(<<" ">>)>>,
                                <<"kv", "range", Chars(<<>>)>>,
                                <<"kv", "prompt", Chars(<<"\n">>)>>,
                                <<"kv", "subphasePrompt", Chars(<<" ">>)>> >>),
                      <<<<"ws">>, <<"txt">>>>
                          \o Object(<< <<"kv", "title", Chars(<<" ", "T">>)>>,
                                       <<"kv", "range", Chars(<<"R">>)>>,
                                       <<"kv", "prompt", Chars(<<"P">>)>>,
                                       <<"kv", "subphasePrompt", Chars(<<"S">>)>> >>)
                          \o <<<<"ws">>>> }}
        Result(outcome) ==
            IF outcome.kind # "ok" THEN <<>>
            ELSE LET text == outcome.text
                     inked == {i \in 1..Len(text) : text[i] # <<"ws">>}
                 IN  IF inked = {} THEN <<>>
                     ELSE SubSeq(text, Min(inked), CHOOSE i \in inked : \A j \in inked : j <= i)
    IN  {Result(outcome) : outcome \in Outcomes}

\* v ?? fallback in place of v || fallback
OrFallback_nullish(v, fallback) == IF v = Undefined \/ v = Null THEN fallback ELSE v
\* v || fallback
OrFallback(v, fallback) == IF Falsy(v) THEN fallback ELSE v

\* handleAddPhase up to its await: the button is disabled while isCreatingPhase
handleAddPhase(typed) ==
    LET prompt_ == Chars(Trim(typed[2]))
    IN  /\ ~creation.isCreatingPhase
        /\ creation' = IF prompt_ = Chars(<<>>) THEN creation
                       ELSE [creation EXCEPT !.isCreatingPhase = TRUE,
                                             !.phaseCall = <<prompt_>>]
        /\ UNCHANGED <<syncVars, aiVars, prompt, call, hook, graph, page>>

\* handleAddPhase from the answer of requestAi to the end of its finally
handleAddPhaseResumes(aiText) ==
    LET prompt_ == creation.phaseCall[1]
        parsed == parsePhaseSetup(aiText)
        Field(key) == IF parsed.kind = "object" THEN GetProp(parsed.props, key) ELSE Undefined
        title == OrFallback(Field("title"), prompt_)
        range == OrFallback(Field("range"), Chars(<<"Custom range">>))
        subphasePrompt ==
            OrFallback(Field("subphasePrompt"),
                   Chars(<<"Tell me about ">> \o String(title) \o <<" (">> \o String(range)
                             \o <<") and draft a working overview.">>))
        phaseId == "phase-" \o ToString(creation.now)
        subphaseId == "subphase-" \o ToString(creation.now)
    IN  /\ creation.phaseCall # <<>>
        /\ graph' = [graph EXCEPT !.phaseData =
                        @ \cup {[id |-> phaseId, range |-> range, subphases |-> {subphaseId}]}]
        /\ creation' = [creation EXCEPT
                           !.isCreatingPhase = FALSE,
                           !.phaseCall = <<>>,
                           !.made = <<[kind |-> "phase", id |-> phaseId, title |-> title,
                                       range |-> range, prompt |-> subphasePrompt]>>,
                           !.now = @ + 1]
        /\ UNCHANGED <<syncVars, aiVars, prompt, call, hook, page>>

\* handleAddSubphase up to its await; the form is shown for a selected phase
handleAddSubphase(selectedPhase, typed) ==
    LET prompt_ == Chars(Trim(typed[2]))
    IN  /\ ~creation.isCreatingSubphase
        /\ creation' = IF prompt_ = Chars(<<>>) THEN creation
                       ELSE [creation EXCEPT !.isCreatingSubphase = TRUE,
                                             !.subphaseCall = <<prompt_, selectedPhase>>]
        /\ UNCHANGED <<syncVars, aiVars, prompt, call, hook, graph, page>>

\* handleAddSubphase from the answer of requestAi to the end of its finally:
\* setPhaseData maps over the phases of that moment
handleAddSubphaseResumes(aiText) ==
    LET prompt_ == creation.subphaseCall[1]
        selectedPhase == creation.subphaseCall[2]
        parsed == parseSubphaseSetup(aiText)
        Field(key) == IF parsed.kind = "object" THEN GetProp(parsed.props, key) ELSE Undefined
        fallbackTitle == IF Len(String(prompt_)) > 60 THEN Chars(<<"New subphase">>) ELSE prompt_
        title == OrFallback(Field("title"), fallbackTitle)
        range == OrFallback(Field("range"), selectedPhase.range)
        nextPrompt ==
            OrFallback(Field("prompt"),
                   Chars(<<"Tell me about ">> \o String(title) \o <<" (">> \o String(range)
                             \o <<") and draft a working overview.">>))
        id == "subphase-" \o ToString(creation.now)
    IN  /\ creation.subphaseCall # <<>>
        /\ graph' = [graph EXCEPT !.phaseData =
                        {IF phase.id = selectedPhase.id
                         THEN [phase EXCEPT !.subphases = @ \cup {id}]
                         ELSE phase : phase \in @}]
        /\ creation' = [creation EXCEPT
                           !.isCreatingSubphase = FALSE,
                           !.subphaseCall = <<>>,
                           !.made = <<[kind |-> "subphase", id |-> id, title |-> title,
                                       range |-> range, prompt |-> nextPrompt]>>,
                           !.now = @ + 1]
        /\ UNCHANGED <<syncVars, aiVars, prompt, call, hook, page>>

\* one phase to begin with
InitCreate ==
    /\ SyncAtRest
    /\ AiAtRest
    /\ prompt = NoPrompt
    /\ call = NoCall
    /\ hook = [history |-> <<"a">>, index |-> 0]
    /\ graph = [phaseData |-> {[id |-> "p1", range |-> Chars(<<"1789">>), subphases |-> {"s1"}]},
                entityData |-> {}, connections |-> {},
                connectionForm |-> [from |-> <<>>, to |-> <<>>]]
    /\ creation = [isCreatingPhase |-> FALSE, isCreatingSubphase |-> FALSE,
                   phaseCall |-> <<>>, subphaseCall |-> <<>>, made |-> <<>>, now |-> 0]
    /\ page = [syncStatus |-> "idle", local |-> <<>>, isApplyingRemote |-> FALSE, timers |-> {},
               posts |-> {}, sent |-> <<>>, stored |-> <<>>, loaded |-> <<>>]

\* what the user types: short, padded, longer than 60 characters, blank, nothing
NextCreate ==
    LET Typed == { Chars(<<"p">>), Chars(<<" ", "p", "\n">>), Chars([i \in 1..61 |-> "x"]),
                   Chars(<<" ">>), Chars(<<>>) }
    IN  \/ \E typed \in Typed : creation.now < MaxCreated /\ handleAddPhase(typed)
        \/ \E aiText \in requestAi : handleAddPhaseResumes(aiText)
        \/ \E selectedPhase \in graph.phaseData, typed \in Typed :
               creation.now < MaxCreated /\ handleAddSubphase(selectedPhase, typed)
        \/ \E aiText \in requestAi : handleAddSubphaseResumes(aiText)
        \/ \E target \in graph.phaseData : handleDeletePhase(target)

SpecCreate == InitCreate /\ [][NextCreate]_vars

\* every request made by requestAi settles: fetch resolves or rejects
FairCreate ==
    /\ SpecCreate
    /\ WF_vars(\E aiText \in requestAi : handleAddPhaseResumes(aiText))
    /\ WF_vars(\E aiText \in requestAi : handleAddSubphaseResumes(aiText))

(* ============ client sync (App.tsx 1752-1809, 1910-1951) =============== *)
\* A snapshot is [rev, parts]: parts gives each of phases, entities, chats,
\* connections and theme as [shape, v], rev counts the changes that led to it.
\* A shape is "array", "object" or "theme" ('light' or 'dark'); in a document
\* of the server also "absent", "other" (none of these) and "array!" (an array
\* whose first phase has no subphases list).

\* the part a document has to carry for the load to take it: Array.isArray for
\* phases and connections, typeof 'object' for entities and chats, 'light' or
\* 'dark' for theme
ExpectedShape(name) ==
    IF name \in {"phases", "connections"} THEN "array"
    ELSE IF name = "theme" THEN "theme" ELSE "object"

\* a load that takes the parts of the document as they are
applyRemote_unchecked(parts, payload) == payload.parts

\* the parts after the setters loadRemote calls for a document that has an
\* updatedAt; for "array!" setPhaseData is called, then payload.phases[0]
\* ?.subphases[0] throws and the remaining parts are not reached
applyRemote(parts, payload) ==
    [name \in DOMAIN parts |->
        IF payload.parts.phases.shape = "array!"
        THEN IF name = "phases" THEN payload.parts[name] ELSE parts[name]
        ELSE IF payload.parts[name].shape = ExpectedShape(name)
             THEN payload.parts[name]
             ELSE parts[name]]

\* an effect that does not look at syncStatus
syncEffect_anyStatus(p) ==
    IF p.isApplyingRemote THEN [p EXCEPT !.timers = {}, !.isApplyingRemote = FALSE]
    ELSE [p EXCEPT !.timers = {p.local}]
\* an effect that does not look at isApplyingRemoteRef
syncEffect_echo(p) ==
    IF p.syncStatus # "ready" THEN [p EXCEPT !.timers = {}]
    ELSE [p EXCEPT !.timers = {p.local}]
\* an effect that leaves the pending timer running
syncEffect_noClear(p) ==
    IF p.syncStatus # "ready" THEN p
    ELSE IF p.isApplyingRemote THEN [p EXCEPT !.isApplyingRemote = FALSE]
    ELSE [p EXCEPT !.timers = @ \cup {p.local}]

\* the effect on [connections, entityData, phaseData, syncStatus, theme,
\* workspaceChats], run after a render that changed one of them: the cleanup
\* of its last run clears the timer, then the effect may start one
syncEffect(p) ==
    IF p.syncStatus # "ready" THEN [p EXCEPT !.timers = {}]
    ELSE IF p.isApplyingRemote THEN [p EXCEPT !.timers = {}, !.isApplyingRemote = FALSE]
    ELSE [p EXCEPT !.timers = {p.local}]

\* loadRemote from the answer to its GET /api/sync: response is the document
\* the server holds, or <<>> for a request that fails (fetch rejects, a status
\* that is not ok, a body that is not JSON); page.loaded records how the load
\* ended and the rev of the local snapshot at that moment
loadRemote(response) ==
    LET applied == [page.local EXCEPT !.parts = applyRemote(@, response)]
    IN  /\ page.syncStatus = "loading"
        /\ page' = syncEffect(
             IF response = <<>>
             THEN [page EXCEPT !.syncStatus = "error", !.loaded = <<"failed", page.local.rev>>]
             ELSE IF response.updatedAt = Null
             THEN [page EXCEPT !.syncStatus = "ready", !.loaded = <<"unseeded", page.local.rev>>]
             ELSE IF response.parts.phases.shape = "array!"
             THEN [page EXCEPT !.syncStatus = "error", !.isApplyingRemote = TRUE,
                               !.local = applied, !.loaded = <<"threw", page.local.rev>>]
             ELSE [page EXCEPT !.syncStatus = "ready", !.isApplyingRemote = TRUE,
                               !.local = applied, !.loaded = <<"remote", page.local.rev>>])
        /\ UNCHANGED <<syncVars, aiVars, prompt, call, hook, graph, creation>>

\* a change the user makes to one of the five parts, and the effect after it
Change(name) ==
    /\ page.local.rev < MaxChanges
    /\ page' = syncEffect([page EXCEPT !.local.rev = @ + 1,
                                       !.local.parts[name].v = page.local.rev + 1])
    /\ UNCHANGED <<syncVars, aiVars, prompt, call, hook, graph, creation>>

\* the callback of window.setTimeout: the payload is the snapshot of the render
\* the effect ran in
syncTimerFires(timer) ==
    /\ page' = [page EXCEPT !.timers = @ \ {timer},
                            !.posts = @ \cup {timer},
                            !.sent = Append(@, timer.rev)]
    /\ UNCHANGED <<syncVars, aiVars, prompt, call, hook, graph, creation>>

\* app.post('/api/sync') for one of the POSTs in flight, in the order the
\* requests reach the server
PostSyncArrives(post) ==
    /\ page' = [page EXCEPT !.posts = @ \ {post},
                            !.stored = [updatedAt |-> toISOString(post.rev), parts |-> post.parts]]
    /\ UNCHANGED <<syncVars, aiVars, prompt, call, hook, graph, creation>>

\* the page just mounted with its local data, its GET /api/sync under way; the
\* server holds no document, or one written by this client, or one that lacks
\* parts or carries them in another shape
InitPage ==
    LET Part(shape) == [shape |-> shape, v |-> 0]
        Local == [phases |-> Part("array"), entities |-> Part("object"),
                  chats |-> Part("object"), connections |-> Part("array"),
                  theme |-> Part("theme")]
        Remote(shapes) == [name \in DOMAIN Local |-> [shape |-> shapes[name], v |-> -1]]
        Documents ==
            { [updatedAt |-> Null, parts |-> Remote([name \in DOMAIN Local |-> "absent"])],
              [updatedAt |-> toISOString(0),
               parts |-> Remote([name \in DOMAIN Local |-> ExpectedShape(name)])],
              [updatedAt |-> toISOString(0),
               parts |-> Remote([phases |-> "array", entities |-> "object", chats |-> "absent",
                                 connections |-> "absent", theme |-> "other"])],
              [updatedAt |-> toISOString(0),
               parts |-> Remote([phases |-> "other", entities |-> "other", chats |-> "object",
                                 connections |-> "array", theme |-> "theme"])],
              [updatedAt |-> toISOString(0),
               parts |-> Remote([phases |-> "array!", entities |-> "object", chats |-> "object",
                                 connections |-> "array", theme |-> "theme"])] }
    IN  /\ SyncAtRest
        /\ AiAtRest
        /\ prompt = NoPrompt
        /\ call = NoCall
        /\ hook = [history |-> <<"a">>, index |-> 0]
        /\ graph = [phaseData |-> {}, entityData |-> {}, connections |-> {},
                    connectionForm |-> [from |-> <<>>, to |-> <<>>]]
        /\ creation = [isCreatingPhase |-> FALSE, isCreatingSubphase |-> FALSE,
                       phaseCall |-> <<>>, subphaseCall |-> <<>>, made |-> <<>>, now |-> 0]
        /\ \E document \in Documents :
               page = [syncStatus |-> "loading", local |-> [rev |-> 0, parts |-> Local],
                       isApplyingRemote |-> FALSE, timers |-> {}, posts |-> {}, sent |-> <<>>,
                       stored |-> document, loaded |-> <<>>]

NextPage ==
    \/ \E response \in {page.stored, <<>>} : loadRemote(response)
    \/ \E name \in DOMAIN page.local.parts : Change(name)
    \/ \E timer \in page.timers : syncTimerFires(timer)
    \/ \E post \in page.posts : PostSyncArrives(post)

SpecPage == InitPage /\ [][NextPage]_vars

(* ======================== claims: model fallback ======================= *)
\* the candidate order the gateway is to follow under configuration e
ExpectedOrder(e) ==
    Dedupe((IF Truthy(e.OPENAI_MODEL) THEN <<e.OPENAI_MODEL>> ELSE <<>>)
               \o <<"gpt-4o-mini", "gpt-4o", "gpt-4.1-mini">>)

\* an error of the model-unavailable class
ModelUnavailable(e) ==
    \/ e.status = 404
    \/ "model_not_found" \in {e.ecode, e.code}
    \/ MatchesModelNotFound(e.emessage) \/ MatchesModelNotFound(e.message)
    \/ MatchesDoesNotExist(e.emessage) \/ MatchesDoesNotExist(e.message)

AllCandidatesUnavailable ==
    /\ Len(attempts) = Len(ExpectedOrder(env))
    /\ \A k \in 1..Len(attempts) :
           ~attempts[k].ok /\ ModelUnavailable(attempts[k].error)

\* C1: the create calls of one request follow the candidate order, each
\* candidate at most once, and none is made after a call that succeeded.
C1_FallbackOrder ==
    /\ Len(attempts) <= Len(ExpectedOrder(env))
    /\ \A k \in 1..Len(attempts) : attempts[k].model = ExpectedOrder(env)[k]
    /\ \A k \in 1..Len(attempts), l \in 1..Len(attempts) :
           k < l => attempts[k].model # attempts[l].model
    /\ \A k \in 1..(Len(attempts) - 1) : ~attempts[k].ok

C1_Witness ==
    /\ env.OPENAI_MODEL = "gpt-4o"
    /\ Len(attempts) = 3
    /\ attempts[3].ok /\ attempts[3].model = "gpt-4.1-mini"
    /\ ai.pc = "done"

\* C2: a further candidate is tried only after a model-unavailable failure; any
\* other failure ends the attempts and is the error callOpenAi raises.
C2_OnlyModelErrorsAdvance ==
    /\ \A k \in 2..Len(attempts) :
           ~attempts[k - 1].ok /\ ModelUnavailable(attempts[k - 1].error)
    /\ \A k \in 1..Len(attempts) :
           (~attempts[k].ok /\ ~ModelUnavailable(attempts[k].error))
               => /\ k = Len(attempts)
                  /\ ai.pc = "done"
                  /\ ai.result = Thrown(attempts[k].error)

C2_Witness ==
    /\ Len(attempts) = 2
    /\ ~attempts[2].ok /\ attempts[2].error.status = 401
    /\ Len(ExpectedOrder(env)) > 2
    /\ ai.result = Thrown(attempts[2].error)

\* C3: a success answer of the hosted provider names the model of the create
\* call that succeeded, and carries the text of that call.
C3_ModelIsProducer ==
    (aiRes.status = 200 /\ aiRes.provider = "openai")
        => /\ Len(attempts) >= 1
           /\ attempts[Len(attempts)].ok
           /\ aiRes.model = attempts[Len(attempts)].model
           /\ aiRes.text = TextOf(attempts[Len(attempts)].content)

C3_Witness ==
    /\ aiRes.status = 200 /\ aiRes.provider = "openai"
    /\ Len(attempts) >= 2
    /\ aiRes.model # attempts[1].model
    /\ aiRes.text = <<"H", "i">>

\* C4: when every candidate failed as unavailable, callOpenAi raises the error
\* of the last one and the request is answered with an error status; callOpenAi
\* raises a model-unavailable error in that case only.
C4_ExhaustedRaisesLast ==
    /\ AllCandidatesUnavailable
           => /\ ai.result = Thrown(attempts[Len(attempts)].error)
              /\ aiRes.status >= 400
    /\ (ai.result.kind = "throw" /\ ModelUnavailable(ai.result.error))
           => AllCandidatesUnavailable

C4_Witness ==
    /\ AllCandidatesUnavailable
    /\ Len(attempts) = 4
    /\ attempts[1].error # attempts[4].error
    /\ aiRes.status = 500


(* ===================== claims: the sync document ======================= *)
PropSet(props) == {props[i] : i \in 1..Len(props)}

\* the fields of a written body, with the server's stamp in place of its own
StampedFields(body, t) ==
    {p \in PropSet(OwnProps(body)) : p[1] # "updatedAt"}
        \cup {<<"updatedAt", toISOString(t)>>}

IsStamp(v) == v # Undefined /\ v[1] = "iso"

StampOf(file) == GetProp(readSyncData(file), "updatedAt")

\* C6: when the latest write B succeeded, a GET /api/sync answered after it
\* returns exactly B's fields and the server's stamp of B's write time; no field
\* of an earlier document and no updatedAt of the request body survives.
C6_GetReturnsLastWrite ==
    (last.req.route = "GET /api/sync" /\ last.status = 200 /\ lastWrite.ok)
        => /\ PropSet(last.body) = StampedFields(lastWrite.body, lastWrite.at)
           /\ Len(last.body) = Cardinality(PropSet(last.body))

C6_Witness ==
    /\ last.req.route = "GET /api/sync" /\ last.status = 200
    /\ lastWrite.ok
    /\ HasKey(OwnProps(lastWrite.body), "updatedAt")
    /\ GetProp(OwnProps(lastWrite.body), "updatedAt") # toISOString(lastWrite.at)
    /\ HasKey(readSyncData(lastWrite.before), "theme")
    /\ ~HasKey(last.body, "theme")

\* C7 (as claimed): the stamp of a successful write is strictly later than the
\* stamp of the document it replaces.
C7_StrictlyLater ==
    (lastWrite.ok /\ IsStamp(StampOf(lastWrite.before)))
        => StampOf(syncFile)[2] > StampOf(lastWrite.before)[2]

\* C7 (amended): the stamp of a successful write is the server's clock reading
\* at the write, so it is never earlier than the stamp of the document it
\* replaces, and equal to it when both writes fall in the same millisecond.
C7_NotEarlier ==
    (lastWrite.ok /\ IsStamp(StampOf(lastWrite.before)))
        => /\ StampOf(syncFile) = toISOString(lastWrite.at)
           /\ StampOf(syncFile)[2] >= StampOf(lastWrite.before)[2]

C7_Witness ==
    /\ lastWrite.ok
    /\ IsStamp(StampOf(lastWrite.before))
    /\ StampOf(syncFile) = StampOf(lastWrite.before)
    /\ PropSet(readSyncData(syncFile)) # PropSet(readSyncData(lastWrite.before))

\* C8 (as claimed): an authorized POST /api/sync whose body is not a JSON object
\* is answered 400, and the sync file is never written for such a body.
C8_NonObjectRefused ==
    /\ (last.req.route = "POST /api/sync" /\ last.ran /\ last.req.body.kind # "object")
           => last.status = 400
    /\ lastWrite.at >= 0 => lastWrite.body.kind = "object"

\* C9 (as claimed): after a write that failed, the document read from the sync
\* file is still the one stored before the write.
C9_FailedWriteKeepsDocument ==
    (lastWrite.at >= 0 /\ ~lastWrite.ok)
        => readSyncData(syncFile) = readSyncData(lastWrite.before)

\* C10: whatever requests were in flight together, the stored document is one
\* complete JSON object holding exactly the fields of the write that completed
\* last, with its server stamp.
C10_LastWriterWins ==
    lastWrite.ok
        => /\ syncFile.exists /\ JSONvalid(syncFile.raw)
           /\ PropSet(readSyncData(syncFile))
                  = StampedFields(lastWrite.body, lastWrite.at)

C10_Witness ==
    /\ lastWrite.ok /\ lastWrite.raced
    /\ inflight = {}
    /\ JSONvalid(lastWrite.before.raw)
    /\ PropSet(readSyncData(lastWrite.before)) \ PropSet(readSyncData(syncFile)) # {}

(* ========================= claims: the auth gate ======================= *)
\* the request presents the secret in one of the two places the guard reads
PresentsSecret(r, secret) ==
    \/ r.authorization = Bearer(secret)
    \/ r.xSyncToken = secret

Completing(r) == r \in inflight /\ inflight' = inflight \ {r}

\* C5: with a secret configured, a request that presents it nowhere is answered
\* 401 without its handler running and without any change to the sync file or
\* the uploads directory; a request whose bearer token is the secret reaches
\* its handler.
C5_AuthGate ==
    [][\A r \in inflight :
          (Completing(r) /\ Truthy(syncToken)) =>
              /\ ~PresentsSecret(r, syncToken) =>
                     /\ last'.req = r /\ last'.status = 401 /\ ~last'.ran
                     /\ syncFile' = syncFile /\ uploads' = uploads
              /\ r.authorization = Bearer(syncToken) =>
                     /\ last'.req = r /\ last'.status # 401 /\ last'.ran]_vars

C5_Witness ==
    /\ Truthy(syncToken)
    /\ last.req.route = "POST /api/upload"
    /\ ~PresentsSecret(last.req, syncToken)
    /\ last.status = 401
    /\ syncFile.exists /\ uploads # {}

\* C11 (as claimed): an authorized GET /api/sync is answered 200; on a store no
\* write ever reached it returns {updatedAt: null}, and otherwise the document
\* of the most recent successful write, also when a later write failed.
C11_GetReturnsLastSuccessful ==
    (last.req.route = "GET /api/sync" /\ last.ran)
        => /\ last.status = 200
           /\ lastWrite.at < 0 => last.body = EmptyDoc
           /\ lastWrite.ok
                  => PropSet(last.body) = StampedFields(lastWrite.body, lastWrite.at)
           /\ (lastWrite.at >= 0 /\ ~lastWrite.ok /\ JSONvalid(lastWrite.before.raw))
                  => last.body = readSyncData(lastWrite.before)

(* ========================== claims: the uploads ======================== *)
UploadOk(x) == x.req.route = "POST /api/upload" /\ x.status = 200
\* the name under which a successful upload exchange stored its file
StoredName(x) == GetProp(x.body, "url")[2]

\* C12 (as claimed): a successful upload that follows a successful upload gets a
\* stored filename different from the earlier one, also when both carry the same
\* fileName, and leaves the file stored earlier in place with its bytes.
C12_DistinctStoredNames ==
    [][\A r \in inflight :
          (UploadOk(last) /\ Completing(r) /\ UploadOk(last')) =>
              /\ StoredName(last') # StoredName(last)
              /\ \A f \in uploads :
                    f.name = pathJoin(uploadsDir, StoredName(last)) => f \in uploads']_vars

\* the characters the stored name may hold after the timestamp prefix
NameChars ==
    {"a", "b", "c", "d", "e", "f", "g", "h", "i", "j", "k", "l", "m", "n", "o", "p", "q",
     "r", "s", "t", "u", "v", "w", "x", "y", "z", "A", "B", "C", "D", "E", "F", "G", "H",
     "I", "J", "K", "L", "M", "N", "O", "P", "Q", "R", "S", "T", "U", "V", "W", "X", "Y",
     "Z", "0", "1", "2", "3", "4", "5", "6", "7", "8", "9", "_", ".", "-"}
Timestamps == {ToString(t) : t \in 0..MaxClock}

\* C13: every file in the uploads directory is a direct child of it, and its
\* name is a timestamp, "-", then a non-empty base made only of letters, digits,
\* "_", "." and "-", whatever fileName the client sent.
C13_StoredNameSafe ==
    \A f \in uploads :
        LET seg == f.name[Len(f.name)]
        IN  /\ Len(f.name) = Len(uploadsDir) + 1
            /\ SubSeq(f.name, 1, Len(uploadsDir)) = uploadsDir
            /\ Len(seg) >= 3
            /\ seg[1] \in Timestamps /\ seg[2] = "-"
            /\ \A i \in 3..Len(seg) : seg[i] \in NameChars

C13_Witness ==
    /\ UploadOk(last)
    /\ GetProp(OwnProps(last.req.body), "fileName") = Chars(<<".", ".", "/", "e">>)
    /\ \E f \in uploads : f.name = Append(uploadsDir, <<"1", "-", ".", ".", "_", "e">>)

\* the text after the marker is base64 throughout
Decodable(data) == \A i \in 1..Len(base64Part(data[2])) : IsQuad(base64Part(data[2])[i])

\* C14 (as claimed): an upload whose payload cannot be decoded as base64, or
\* whose write fails, is answered 500 and leaves the uploads directory as it
\* was; an upload is answered 200 only when its payload was decoded and its
\* bytes are stored in full.
C14_FailedUploadStoresNothing ==
    [][\A r \in inflight :
          LET data == GetProp(OwnProps(r.body), "data")
          IN  (Completing(r) /\ r.route = "POST /api/upload" /\ last'.status # 400) =>
                  /\ ~Decodable(data) => last'.status = 500
                  /\ last'.status = 500 => uploads' = uploads
                  /\ last'.status = 200 =>
                         /\ Decodable(data)
                         /\ [name |-> pathJoin(uploadsDir, StoredName(last')),
                             bytes |-> base64Part(data[2])] \in uploads']_vars

(* ===================== claims: POST /api/ai validation ================= *)
Missing(v) == v = Undefined \/ v = ""
PassesBothChecks(req) ==
    /\ ~Missing(req.action) /\ ~Missing(req.context)
    /\ req.action \in {"draft", "edit", "overview", "chat", "setup"}
\* a call of the hosted or of the local provider is being awaited or was made
ProviderCalled == ai.pc \in {"create", "fetch"} \/ attempts # <<>>

\* C15: a request whose action or context is missing, or whose action is not
\* one of draft, edit, overview, chat, setup, is answered 400 and no provider
\* call is made for it; a provider call is made only for a request that passes
\* both checks.
C15_ValidationBeforeProvider ==
    /\ ProviderCalled => PassesBothChecks(ai.req)
    /\ (ai.pc = "done" /\ ~PassesBothChecks(ai.req)) => aiRes.status = 400

C15_Witness ==
    /\ ai.pc = "done"
    /\ ai.req.action = "summarize" /\ ai.req.context = "ctx"
    /\ aiRes.status = 400
    /\ ~ProviderCalled

\* the request was handed to callOllama and that call failed
LocalDispatchFailed == ai.pc = "done" /\ ai.result = Thrown(OllamaFailed)
\* the request was handed to callOpenAi and that call failed
HostedDispatchFailed ==
    ai.pc = "done" /\ ai.result.kind = "throw" /\ ai.result.error # OllamaFailed

\* C16 (as claimed): a failed dispatch is answered 503 when the request went to
\* the local backend and 500 when it went to the hosted backend, under every
\* provider configuration.
C16_StatusFollowsBackend ==
    /\ LocalDispatchFailed => aiRes.status = 503
    /\ HostedDispatchFailed => aiRes.status = 500

(* ==================== claims: the prompt construction ================== *)
\* an entry with role user or assistant and string content
IsTurn(e) == e.kind = "object" /\ e.role \in {"user", "assistant"} /\ e.content[1] = "chars"
TurnIndices(items) == {i \in 1..Len(items) : IsTurn(items[i])}
\* the positions of the last 8 turns
KeptIndices(items) ==
    {i \in TurnIndices(items) : Cardinality({j \in TurnIndices(items) : j > i}) < 8}
\* the entries at those positions, in their original order
ExpectedTurns(h) ==
    IF h.kind # "array" THEN <<>>
    ELSE LET K == KeptIndices(h.items)
         IN  [n \in 1..Cardinality(K) |->
                 h.items[CHOOSE i \in K : Cardinality({j \in K : j <= i}) = n]]

\* C17: the messages of a chat request are three system messages, then at most
\* 8 entries of chatHistory, then one user message; the entries are the last 8
\* of those with role user or assistant and string content, in their original
\* order, and no other entry is forwarded.
C17_ChatMessageSequence ==
    (prompt.state = "built" /\ prompt.req.action = "chat") =>
        LET msgs == prompt.messages
            n == Len(msgs)
        IN  /\ n >= 4 /\ n - 4 <= 8
            /\ \A i \in 1..3 : msgs[i].role = "system"
            /\ msgs[n].role = "user" /\ msgs[n].kind = "object"
            /\ SubSeq(msgs, 4, n - 1) = ExpectedTurns(prompt.req.chatHistory)
            /\ \A i \in 4..(n - 1) : IsTurn(msgs[i])

C17_Witness ==
    /\ prompt.state = "built" /\ prompt.req.action = "chat"
    /\ Len(prompt.req.chatHistory.items) = 10
    /\ Cardinality(TurnIndices(prompt.req.chatHistory.items)) = 9
    /\ ~IsTurn(prompt.req.chatHistory.items[5])
    /\ Len(prompt.messages) = 12
    /\ prompt.messages[4] = prompt.req.chatHistory.items[2]

\* the lines of a text: its pieces cut at the line breaks
RECURSIVE Lines(_)
Lines(text) ==
    LET breaks == {i \in 1..Len(text) : text[i] = "\n"}
    IN  IF breaks = {} THEN <<text>>
        ELSE LET i == CHOOSE x \in breaks : \A y \in breaks : x <= y
             IN  <<SubSeq(text, 1, i - 1)>> \o Lines(SubSeq(text, i + 1, Len(text)))

\* the text of field k of context c, or `otherwise` when the field is absent
FieldText(c, k, otherwise) == IF HasKey(c, k) THEN GetProp(c, k)[2] ELSE <<otherwise>>
OptionalKeys == <<"focus", "summary", "prompt", "draft", "readingText">>
OptionalLabels == <<"Focus: ", "Summary: ", "Prompt: ", "Draft: ", "Reading text: ">>
\* the optional fields of c that are present and not empty, in the fixed order
NonEmptyOptionals(c) ==
    SelectSeq([i \in 1..5 |-> i], LAMBDA i : FieldText(c, OptionalKeys[i], "") \notin {<<>>, <<"">>})
\* the entries the block is to hold
ExpectedEntries(c) ==
    << <<"Kind: ">> \o FieldText(c, "kind", "unknown"),
       <<"Scope: ">> \o FieldText(c, "scope", "summary"),
       <<"Title: ">> \o FieldText(c, "title", "Untitled"),
       <<"Range: ">> \o FieldText(c, "range", "n/a") >>
        \o [n \in 1..Len(NonEmptyOptionals(c)) |->
               <<OptionalLabels[NonEmptyOptionals(c)[n]]>>
                   \o FieldText(c, OptionalKeys[NonEmptyOptionals(c)[n]], "")]
\* some field of c holds a line break
HasLineBreak(c) == \E i \in 1..Len(c) : \E j \in 1..Len(c[i][2][2]) : c[i][2][2][j] = "\n"

\* C18 (as claimed): the lines of the block are exactly the four lines Kind,
\* Scope, Title, Range followed by one line for each non-empty optional field,
\* in the order Focus, Summary, Prompt, Draft, Reading text.
C18_OneLinePerField ==
    prompt.state = "built" =>
        Lines(prompt.contextBlock) = ExpectedEntries(prompt.req.context)

\* C18 (amended): the block is the entries Kind, Scope, Title, Range followed by
\* one entry for each non-empty optional field, in the order Focus, Summary,
\* Prompt, Draft, Reading text, joined by line breaks; an absent or empty
\* optional field contributes nothing; every entry is one line of the block
\* when no field holds a line break.
C18_OneEntryPerField ==
    prompt.state = "built" =>
        /\ prompt.contextBlock = Join(ExpectedEntries(prompt.req.context), <<"\n">>)
        /\ ~HasLineBreak(prompt.req.context) =>
               Lines(prompt.contextBlock) = ExpectedEntries(prompt.req.context)

C18_Witness ==
    /\ prompt.state = "built"
    /\ ~HasKey(prompt.req.context, "kind")
    /\ Chars(<<>>) = GetProp(prompt.req.context, "focus")
    /\ ~HasKey(prompt.req.context, "summary")
    /\ Line = GetProp(prompt.req.context, "draft")
    /\ TwoLines = GetProp(prompt.req.context, "readingText")
    /\ Len(ExpectedEntries(prompt.req.context)) = 6
    /\ Len(Lines(prompt.contextBlock)) = 7

\* the scope and the kind a context names, as plain strings
NameOf(c, k) == IF HasKey(c, k) THEN GetProp(c, k)[2][1] ELSE Undefined
GenericTask == "Provide a helpful response based on the context."
FullSetup(target) ==
    "Create a minimal " \o target \o " setup from the context. Return JSON only with keys: title, range, summary, subphaseTitle, subphaseRange, subphasePrompt, themes, questions. Write the summary as 2-4 short paragraphs. Keep prompts concise but informative. Do not include any extra text or code fences."
\* the rows of the decision table, for scope in {summary, subphase}
TableRow(action, scope, kind) ==
    CASE action = "draft" /\ scope = "summary" /\ kind = "phase" ->
             "Write a long-form narrative (4-6 paragraphs) based on the context."
      [] action = "draft" /\ scope = "summary" /\ kind # "phase" ->
             "Write a concise 3-5 sentence summary based on the context."
      [] action = "draft" /\ scope = "subphase" ->
             "Write a clear working draft (3-6 paragraphs) based on the prompt and context."
      [] action = "edit" /\ scope = "summary" /\ kind = "phase" ->
             "Revise the narrative for clarity, structure, and flow. Keep it 4-6 paragraphs."
      [] action = "edit" /\ scope = "summary" /\ kind # "phase" ->
             "Revise the summary for clarity and precision in 3-5 sentences."
      [] action = "edit" /\ scope = "subphase" ->
             "Revise the draft for clarity, structure, and evidence alignment. Keep the length similar."
      [] action = "overview" ->
             "Provide a concise high-level overview in 4-6 sentences. Avoid citations."
      [] action = "chat" ->
             "Answer the user question and suggest concrete edits or next steps."
      [] action = "setup" /\ scope = "subphase" ->
             "Create a minimal subphase setup from the context. Return JSON only with keys: title, range, prompt. Keep values concise and specific. Do not include any extra text or code fences."
      [] action = "setup" /\ scope = "summary" /\ kind = "entity" -> FullSetup("entry")
      [] action = "setup" /\ scope = "summary" /\ kind = "phase" -> FullSetup("phase")

\* C19: for each of the five actions, scope summary or subphase and kind phase
\* or entity, the task built is the instruction of the matching table row; the
\* generic instruction is what buildTask returns exactly for an action outside
\* the five, and no request that passes validation carries such an action.
C19_TaskMatchesTable ==
    LET req == prompt.req
        scope == NameOf(req.context, "scope")
        kind == NameOf(req.context, "kind")
    IN  /\ (prompt.state = "built" /\ scope \in {"summary", "subphase"}
                /\ kind \in {"phase", "entity"})
               => prompt.task = TableRow(req.action, scope, kind)
        /\ prompt.state # "none" =>
               /\ buildTask(req.action, req.context) = GenericTask
                      <=> req.action \notin {"draft", "edit", "overview", "chat", "setup"}
               /\ prompt.state = "built" => prompt.task # GenericTask

C19_Witness ==
    /\ prompt.state = "built"
    /\ prompt.req.action = "setup"
    /\ NameOf(prompt.req.context, "scope") = "summary"
    /\ NameOf(prompt.req.context, "kind") = "entity"
    /\ prompt.task = FullSetup("entry")

(* ================== claims: the setup answer parsers =================== *)
\* the text holds a '{' before a later '}'
HasBracePair(text) ==
    \E i, j \in 1..Len(text) : i < j /\ text[i] = <<"{">> /\ text[j] = <<"}">>
\* the slice from the first '{' to the last '}'
OuterSlice(text) ==
    SubSeq(text,
           CHOOSE i \in 1..Len(text) :
               text[i] = <<"{">> /\ \A k \in 1..(i - 1) : text[k] # <<"{">>,
           CHOOSE j \in 1..Len(text) :
               text[j] = <<"}">> /\ \A k \in (j + 1)..Len(text) : text[k] # <<"}">>)
IsTrimmed(cs) == cs = <<>> \/ (~IsSpace(cs[1]) /\ ~IsSpace(cs[Len(cs)]))
\* the strings of the list l that are not empty once trimmed, trimmed, in order
KeptStrings(l) ==
    LET K == {i \in 1..Len(l) : l[i][1] = "chars" /\ Trim(l[i][2]) # <<>>}
    IN  [n \in 1..Cardinality(K) |->
            Chars(Trim(l[CHOOSE i \in K : Cardinality({j \in K : j <= i}) = n][2]))]

\* C20: parsePhaseSetup and parseSubphaseSetup never throw; they return null
\* exactly when the text holds no '{' before a later '}' or the slice from the
\* first '{' to the last '}' is not valid JSON; otherwise every string field of
\* the result is absent or a trimmed string, and themes and questions are absent
\* or the list of the trimmed, non-empty strings of the answer's list, in order.
C20_ParsersTotalAndTrimmed ==
    call.done =>
        /\ call.ret.kind # "throw"
        /\ call.ret.kind = "null"
               <=> (~HasBracePair(call.text) \/ ~JSONvalid(OuterSlice(call.text)))
        /\ \A n \in 1..Len(call.ret.props) :
              LET key == call.ret.props[n][1]
                  v == call.ret.props[n][2]
              IN  IF key \in {"themes", "questions"}
                  THEN /\ v[1] = "list"
                       /\ \A i \in 1..Len(v[2]) :
                             v[2][i][1] = "chars" /\ v[2][i][2] # <<>> /\ IsTrimmed(v[2][i][2])
                       /\ v[2] = KeptStrings(Member(JSONparse(OuterSlice(call.text)), key)[2])
                  ELSE v[1] = "chars" /\ IsTrimmed(v[2])

C20_Witness ==
    /\ call.done /\ call.fn = "parsePhaseSetup"
    /\ Len(call.text) = 4 /\ call.text[1] = <<"{">> /\ call.text[4] = <<"}">>
    /\ call.ret = ObjectResult(<< <<"title", Chars(<<"T">>)>>,
                                  <<"themes", <<"list", <<Chars(<<"a">>), Chars(<<"b">>)>>>>>> >>)

(* ================= claims: bearer header before x-sync-token ============ *)
StartsWithBearer(r) == Len(r.authorization) >= 1 /\ r.authorization[1] = "Bearer "

\* C23: with a secret configured, a request whose Authorization header starts
\* with 'Bearer ' is judged by the text after the prefix alone, whatever its
\* x-sync-token header holds (a wrong bearer token next to a correct
\* x-sync-token is answered 401); the x-sync-token header decides only when
\* there is no Bearer authorization header.
C23_BearerShadowsSyncToken ==
    [][\A r \in inflight :
          (Completing(r) /\ Truthy(syncToken)) =>
              /\ last'.req = r
              /\ StartsWithBearer(r) =>
                     ((last'.status = 401) <=> (r.authorization[2] # syncToken))
              /\ ~StartsWithBearer(r) =>
                     ((last'.status = 401) <=> (r.xSyncToken # syncToken))]_vars

C23_Witness ==
    /\ syncToken = Secret
    /\ last.req.authorization = Bearer("wrong")
    /\ last.req.xSyncToken = Secret
    /\ last.status = 401 /\ ~last.ran

(* ============== claims: the scope of the task and of the block ========== *)
\* the text the context block shows after its 'Scope: ' label
ShownScope(block) == block[(CHOOSE i \in 1..Len(block) : block[i] = "Scope: ") + 1]

SummaryTasks ==
    { "Write a long-form narrative (4-6 paragraphs) based on the context.",
      "Write a concise 3-5 sentence summary based on the context.",
      "Revise the narrative for clarity, structure, and flow. Keep it 4-6 paragraphs.",
      "Revise the summary for clarity and precision in 3-5 sentences." }

\* C28 (as claimed): for a draft or edit request, the task is one of the
\* summary instructions exactly when the context block reads 'Scope: summary',
\* also for a context whose scope is absent.
C28_TaskScopeAgreesWithBlock ==
    (prompt.state = "built" /\ prompt.req.action \in {"draft", "edit"})
        => (prompt.task \in SummaryTasks <=> ShownScope(prompt.contextBlock) = "summary")

(* ===================== claims: the undo/redo history =================== *)
\* C30: after any sequence of setState, undo, redo and reset calls, the index
\* points into a history of at least one and at most 50 entries and the state
\* the hook returns is the entry at the index; a setState keeps the entries up
\* to the index, drops every entry after it, appends the value (dropping the
\* oldest entry beyond 50) and leaves nothing to redo.
C30_HistoryBounds ==
    /\ [](/\ 0 <= hook.index
          /\ hook.index < Len(hook.history)
          /\ Len(hook.history) <= HistoryLimit
          /\ Rendered.state = hook.history[hook.index + 1])
    /\ [][(\E value \in {"a", "b"} : setState(value)) =>
            LET kept == SubSeq(hook.history, 1, hook.index + 1)
                new == hook'.history
            IN  /\ ~Rendered'.canRedo
                /\ Len(new) <= Len(kept) + 1
                /\ \E drop \in {0, 1} :
                       /\ drop = 1 <=> Len(kept) = HistoryLimit
                       /\ SubSeq(new, 1, Len(new) - 1) = SubSeq(kept, 1 + drop, Len(kept))]_vars

C30_Witness ==
    /\ Len(hook.history) = HistoryLimit
    /\ hook.index = HistoryLimit - 1
    /\ hook.history[HistoryLimit - 1] = "b"
    /\ ~Rendered.canRedo /\ Rendered.canUndo

(* ================== claims: connections and their records ============== *)
\* C29 (as claimed): after any sequence of handleAddConnection,
\* handleDeleteConnection, handleDeletePhase, handleDeleteEntity and subphase
\* deletions, with the form filled at any earlier point, both ends of every
\* connection are records (or subphases of records) that still exist.
C29_NoDanglingConnection ==
    \A connection \in graph.connections :
        {connection.from, connection.to} \subseteq connectionOptionGroups

(* ===================== claims: creation with AI ======================== *)
\* the record a handler built is in phaseData
Stored(record, phaseData) ==
    \E phase \in phaseData :
        IF record.kind = "phase" THEN phase.id = record.id ELSE record.id \in phase.subphases

FilledIn(record) == ~Falsy(record.title) /\ ~Falsy(record.range) /\ ~Falsy(record.prompt)

PhaseSettles == creation.phaseCall # <<>> /\ creation'.phaseCall = <<>>
SubphaseSettles == creation.subphaseCall # <<>> /\ creation'.subphaseCall = <<>>

LoadsDocument ==
    /\ page.syncStatus = "loading"
    /\ page'.syncStatus # "loading"
    /\ page'.loaded[1] \in {"remote", "threw"}

C24_PushOnlyWhenReady ==
    /\ []((page.timers # {} \/ page.sent # <<>>) =>
              /\ page.syncStatus = "ready"
              /\ page.loaded[1] \in {"remote", "unseeded"})
    /\ [](page.syncStatus = "error" =>
              page.timers = {} /\ page.posts = {} /\ page.sent = <<>>)
    /\ [][/\ page.syncStatus = "error" => page'.syncStatus = "error"
          /\ page.syncStatus = "ready" => page'.syncStatus = "ready"]_vars

C24_Witness ==
    /\ page.syncStatus = "error"
    /\ page.loaded[1] = "failed"
    /\ page.local.rev = MaxChanges
    /\ page.sent = <<>>

\* C25: once a document with an updatedAt has been applied, no timer is
\* started and nothing is sent until the user changes one of the five parts;
\* after the load of an unseeded store the local snapshot is pushed, once,
\* without any change by the user.
C25_NoEchoOfRemote ==
    /\ [](page.loaded # <<>> /\ page.local.rev = page.loaded[2] =>
              /\ page.loaded[1] = "remote" =>
                     page.timers = {} /\ page.sent = <<>> /\ ~page.isApplyingRemote
              /\ page.loaded[1] = "unseeded" =>
                     \/ page.timers = {page.local} /\ page.sent = <<>>
                     \/ page.timers = {} /\ page.sent = <<page.local.rev>>)
    /\ [][(page.loaded # <<>> /\ page.loaded[1] = "remote" /\ page'.local.rev = page.local.rev + 1)
              => page'.timers = {page'.local}]_vars

C25_Witness ==
    /\ page.loaded # <<>>
    /\ page.loaded[1] = "remote"
    /\ page.local.rev = page.loaded[2] + 1
    /\ page.timers = {page.local}
    /\ page.sent = <<>>

\* C26: at most one sync timer is pending; a change made under 'ready' drops
\* the pending timer and starts one for the new snapshot; a POST carries the
\* snapshot of the most recent change, and the snapshots sent are of strictly
\* increasing recency.
C26_OneTimerLatestSnapshot ==
    /\ [](/\ Cardinality(page.timers) <= 1
          /\ page.timers \subseteq {page.local}
          /\ \A i \in 1..(Len(page.sent) - 1) : page.sent[i] < page.sent[i + 1])
    /\ [][/\ (page.syncStatus = "ready" /\ page'.local.rev = page.local.rev + 1)
              => page'.timers = {page'.local}
          /\ page'.posts \ page.posts \subseteq {page.local}]_vars

C26_Witness ==
    /\ Len(page.sent) = 2
    /\ page.sent[1] = 1
    /\ page.sent[2] = 3
    /\ Cardinality(page.posts) = 2
    /\ page.timers = {}

\* the client is at rest: 'ready', something sent, no timer, no POST in flight
Settled ==
    /\ page.syncStatus = "ready"
    /\ page.sent # <<>>
    /\ page.timers = {}
    /\ page.posts = {}

\* C27 (as claimed): once a 'ready' client has stopped changing its state and
\* all its POSTs have been handled, the document the server holds is the
\* client's final snapshot, also when an earlier POST was still in flight
\* when a later one was sent.
C27_ServerGetsFinalSnapshot ==
    Settled => page.stored.parts = page.local.parts

====
